---- MODULE Spec2Model ----
(***************************************************************************)
(* Image memory layout and auxiliary-usage selection of the anv Vulkan     *)
(* driver (src/intel/vulkan/anv_image.c).                                   *)
(*                                                                         *)
(* anv_image_create lays the surfaces of one image out in one allocation   *)
(* (add_surface, make_surface, add_fast_clear_state_buffer) and            *)
(* anv_layout_to_aux_usage decides, per access, which auxiliary usage is   *)
(* legal.  The ISL surface-layout calculator (isl_surf_init,               *)
(* isl_surf_get_{hiz,ccs,mcs}_surf) and the format capability queries are  *)
(* external: their answers are nondeterministic choices here.              *)
(*                                                                         *)
(* A failing assert() or an unreachable() is fatal: image creation ends in *)
(* pc = "abort", and the resolver yields the values ASSERT / UNREACHABLE   *)
(* instead of a mode.                                                      *)
(***************************************************************************)
EXTENDS Integers, Sequences, FiniteSets, TLC

VARIABLES
    device,       \* struct anv_device: info.gen, isl_dev (the layout calculator)
    INTEL_DEBUG,  \* process-wide debug flags: subset of {"NO_HIZ", "NO_RBC"}
    create_info,  \* the VkImageCreateInfo handed to anv_image_create
    image,        \* struct anv_image
    pc,           \* "start" | "loop" | "done" | "oom" | "abort"
    b,            \* for_each_bit cursor of anv_image_create: lowest bit not yet visited
    placed,       \* history: what make_surface laid out for this image, in call order
    call,         \* the last entry-point call on the finished image: arguments and result
    iview,        \* struct anv_image_view of the live view of the image, or NoView
    pscreen       \* struct panfrost_screen: its perfcnt_info and query hook, or NoScreen

vars == <<device, INTEL_DEBUG, create_info, image, pc, b, placed, call, iview, pscreen>>

----------------------------------------------------------------------------
(* Bounds of the model *)

MaxLevels == 2
MaxLayers == 2
MaxSize == 4
MaxAlignLog2 == 2
MaxViewFormats == 1
MaxTiles == 2
MaxDepth == 2

\* The block instances a Panfrost GPU of the model has at most.
MaxInstances == 2

----------------------------------------------------------------------------
(* Vulkan / ISL enumerations used by anv_image.c *)

VK_IMAGE_ASPECT_COLOR_BIT == 1
VK_IMAGE_ASPECT_DEPTH_BIT == 2
VK_IMAGE_ASPECT_STENCIL_BIT == 4

VK_IMAGE_USAGE_TRANSFER_SRC_BIT == 1
VK_IMAGE_USAGE_TRANSFER_DST_BIT == 2
VK_IMAGE_USAGE_SAMPLED_BIT == 4
VK_IMAGE_USAGE_STORAGE_BIT == 8
VK_IMAGE_USAGE_COLOR_ATTACHMENT_BIT == 16
VK_IMAGE_USAGE_DEPTH_STENCIL_ATTACHMENT_BIT == 32
VK_IMAGE_USAGE_INPUT_ATTACHMENT_BIT == 128

VK_IMAGE_CREATE_MUTABLE_FORMAT_BIT == 8
VK_IMAGE_CREATE_CUBE_COMPATIBLE_BIT == 16
VK_IMAGE_CREATE_BLOCK_TEXEL_VIEW_COMPATIBLE_BIT_KHR == 128

\* The bits of a flag word that the model enumerates.
FlagBits == {1, 2, 4, 8, 16, 32, 64, 128}

\* C's  (x & bit) != 0  for a single-bit mask.
HasBit(x, bit) == (x \div bit) % 2 = 1

\* C's  x & y  on 8-bit flag words.
RECURSIVE SumSet(_)
SumSet(S) ==
    IF S = {} THEN 0
    ELSE LET e == CHOOSE x \in S : TRUE IN e + SumSet(S \ {e})

BitAnd(x, y) == SumSet({bit \in FlagBits : HasBit(x, bit) /\ HasBit(y, bit)})

BitOr(x, y) == SumSet({bit \in FlagBits : HasBit(x, bit) \/ HasBit(y, bit)})

MAX2(x, y) == IF x > y THEN x ELSE y

\* align_u32(v, a) = (v + a - 1) & ~(a - 1); a is a power of two.
align_u32(v, a) == (v + a - 1) - ((v + a - 1) % a)

VkImageLayouts ==
    { "UNDEFINED", "GENERAL", "COLOR_ATTACHMENT_OPTIMAL",
      "DEPTH_STENCIL_ATTACHMENT_OPTIMAL", "DEPTH_STENCIL_READ_ONLY_OPTIMAL",
      "SHADER_READ_ONLY_OPTIMAL", "TRANSFER_SRC_OPTIMAL", "TRANSFER_DST_OPTIMAL",
      "PREINITIALIZED", "PRESENT_SRC_KHR", "SHARED_PRESENT_KHR",
      "DEPTH_READ_ONLY_STENCIL_ATTACHMENT_OPTIMAL_KHR",
      "DEPTH_ATTACHMENT_STENCIL_READ_ONLY_OPTIMAL_KHR" }

\* Values of the C type VkImageLayout that are no layout.
InvalidLayouts == { "RANGE_SIZE", "MAX_ENUM", "NOT_AN_ENUMERATOR" }

AuxUsages == { "NONE", "HIZ", "CCS_E", "MCS" }

----------------------------------------------------------------------------
(* Formats and their capabilities: vk_format_aspects and the isl_format queries *)

ColorFormats ==
    { "R8G8B8A8_UNORM", "B10G11R11_UFLOAT_PACK32", "R64G64_SFLOAT", "BC1_RGB_UNORM_BLOCK" }

DepthStencilFormats == { "D32_SFLOAT", "S8_UINT", "D24_UNORM_S8_UINT" }

vk_format_aspects(format) ==
    CASE format = "D32_SFLOAT" -> VK_IMAGE_ASPECT_DEPTH_BIT
      [] format = "S8_UINT" -> VK_IMAGE_ASPECT_STENCIL_BIT
      [] format = "D24_UNORM_S8_UINT" ->
             VK_IMAGE_ASPECT_DEPTH_BIT + VK_IMAGE_ASPECT_STENCIL_BIT
      [] OTHER -> VK_IMAGE_ASPECT_COLOR_BIT

isl_format_is_compressed(format) == format = "BC1_RGB_UNORM_BLOCK"

isl_format_supports_rendering(devinfo, format) ==
    format \in { "R8G8B8A8_UNORM", "B10G11R11_UFLOAT_PACK32" }

isl_format_supports_ccs_e(devinfo, format) == format = "R8G8B8A8_UNORM"

isl_formats_are_ccs_e_compatible(devinfo, format1, format2) ==
    /\ isl_format_supports_ccs_e(devinfo, format1)
    /\ isl_format_supports_ccs_e(devinfo, format2)
    /\ format1 = format2

----------------------------------------------------------------------------
(* The device: generation and layout calculator *)

Gens == { 7, 8, 9 }

\* isl_dev.ss.clear_value_size, set by isl_device_init from the generation's
\* RENDER_SURFACE_STATE clear-colour fields.
clear_value_size(gen) == IF gen >= 9 THEN 16 ELSE 4

\* The (size, alignment) pairs a layout calculator may answer with.  A
\* "tile" calculator answers in whole 4K pages, as the hardware's tiled and
\* auxiliary surfaces are laid out; an "any" calculator may answer any
\* size > 0 and any power-of-two alignment.
Pow2(k) == IF k = 0 THEN 1 ELSE IF k = 1 THEN 2 ELSE IF k = 2 THEN 4
           ELSE IF k = 3 THEN 8 ELSE 16

IslAnswers(isl_dev) ==
    IF isl_dev.granule = "tile"
    THEN { [size |-> 4096 * k, alignment |-> 4096] : k \in 1..MaxTiles }
    ELSE { [size |-> sz, alignment |-> Pow2(k)] : sz \in 1..MaxSize, k \in 0..MaxAlignLog2 }

\* Answers of isl_surf_get_{hiz,ccs,mcs}_surf: refused, or a layout.
NoAnswer == [ok |-> FALSE, size |-> 0, alignment |-> 0]

IslAuxAnswers(isl_dev) ==
    { NoAnswer } \cup
    { [ok |-> TRUE, size |-> a.size, alignment |-> a.alignment] : a \in IslAnswers(isl_dev) }

\* struct anv_device. surface_state_pool counts the slots of the pool that
\* are allocated by the image code and not freed.
Devices(granule) ==
    { [info |-> [gen |-> g],
       isl_dev |-> [granule |-> granule, ss |-> [clear_value_size |-> clear_value_size(g)]],
       surface_state_pool |-> [allocated |-> 0]]
      : g \in Gens }

anv_fast_clear_state_entry_size(dev) == dev.isl_dev.ss.clear_value_size + 4

----------------------------------------------------------------------------
(* VkImageCreateInfo values that are legal input of anv_image_create *)

\* vk_find_struct_const finds no VkImageFormatListCreateInfoKHR in the pNext chain.
NoFormatList == [ present |-> FALSE, pViewFormats |-> << >> ]

\* The sequences over S of length 0..n.
SeqsUpTo(S, n) == UNION { [1..k -> S] : k \in 0..n }

ViewFormatLists ==
    { NoFormatList } \cup
    { [ present |-> TRUE, pViewFormats |-> fs ] :
        fs \in SeqsUpTo({ "R8G8B8A8_UNORM", "B10G11R11_UFLOAT_PACK32" }, MaxViewFormats) }

UsagesOver(bits) == { SumSet(S) : S \in (SUBSET bits) \ { {} } }

ColorUsages(format) ==
    IF isl_format_is_compressed(format)
    THEN { VK_IMAGE_USAGE_SAMPLED_BIT }
    ELSE IF isl_format_supports_rendering(0, format)
    THEN UsagesOver({ VK_IMAGE_USAGE_SAMPLED_BIT, VK_IMAGE_USAGE_STORAGE_BIT,
                      VK_IMAGE_USAGE_COLOR_ATTACHMENT_BIT })
    ELSE UsagesOver({ VK_IMAGE_USAGE_SAMPLED_BIT, VK_IMAGE_USAGE_STORAGE_BIT })

ColorCreateFlags ==
    { 0, VK_IMAGE_CREATE_MUTABLE_FORMAT_BIT,
      VK_IMAGE_CREATE_MUTABLE_FORMAT_BIT + VK_IMAGE_CREATE_BLOCK_TEXEL_VIEW_COMPATIBLE_BIT_KHR,
      VK_IMAGE_CREATE_MUTABLE_FORMAT_BIT + VK_IMAGE_CREATE_BLOCK_TEXEL_VIEW_COMPATIBLE_BIT_KHR
      + VK_IMAGE_CREATE_CUBE_COMPATIBLE_BIT }

\* The extent of the 2D images of the model; width and height only reach the
\* layout calculator.
Extent2D == [ width |-> 4, height |-> 4, depth |-> 1 ]

ZeroExtent == [ width |-> 0, height |-> 0, depth |-> 0 ]

ColorCreateInfos ==
    { ci \in [ imageType : { "2D" }, extent : { Extent2D },
               format : ColorFormats, samples : { 1, 4 }, mipLevels : 1..MaxLevels,
               arrayLayers : 1..MaxLayers, usage : UsagesOver({ VK_IMAGE_USAGE_SAMPLED_BIT,
                   VK_IMAGE_USAGE_STORAGE_BIT, VK_IMAGE_USAGE_COLOR_ATTACHMENT_BIT }),
               tiling : { "OPTIMAL", "LINEAR" }, flags : ColorCreateFlags,
               view_formats : ViewFormatLists ] :
        /\ ci.usage \in ColorUsages(ci.format)
        /\ ci.samples > 1 =>
              /\ ci.tiling = "OPTIMAL" /\ ci.mipLevels = 1
              /\ isl_format_supports_rendering(0, ci.format)
              /\ ~HasBit(ci.usage, VK_IMAGE_USAGE_STORAGE_BIT)
        /\ HasBit(ci.flags, VK_IMAGE_CREATE_BLOCK_TEXEL_VIEW_COMPATIBLE_BIT_KHR)
              => isl_format_is_compressed(ci.format)
        /\ ~HasBit(ci.flags, VK_IMAGE_CREATE_MUTABLE_FORMAT_BIT)
              => ci.view_formats = NoFormatList }

DepthStencilCreateInfos ==
    { ci \in [ imageType : { "2D" }, extent : { Extent2D },
               format : DepthStencilFormats, samples : { 1, 4 }, mipLevels : 1..MaxLevels,
               arrayLayers : 1..MaxLayers,
               usage : UsagesOver({ VK_IMAGE_USAGE_SAMPLED_BIT,
                                    VK_IMAGE_USAGE_DEPTH_STENCIL_ATTACHMENT_BIT }),
               tiling : { "OPTIMAL" }, flags : { 0 }, view_formats : { NoFormatList } ] :
        ci.samples > 1 => ci.mipLevels = 1 }

CreateInfos == ColorCreateInfos \cup DepthStencilCreateInfos

NoCreateInfo == [ imageType |-> "1D", extent |-> ZeroExtent,
                  format |-> "UNDEFINED", samples |-> 0, mipLevels |-> 0, arrayLayers |-> 0,
                  usage |-> 0, tiling |-> "OPTIMAL", flags |-> 0, view_formats |-> NoFormatList ]

----------------------------------------------------------------------------
(* struct anv_image and its surfaces *)

ZeroIsl == [ size |-> 0, alignment |-> 0, tiling |-> "LINEAR", levels |-> 0, samples |-> 0,
             format |-> "UNSUPPORTED", usage |-> {} ]

ZeroSurface == [ isl |-> ZeroIsl, offset |-> 0 ]

\* vk_zalloc2: every field zero.
ZeroImage ==
    [ type |-> "1D", extent |-> ZeroExtent,
      vk_format |-> "UNDEFINED", aspects |-> 0, levels |-> 0, array_size |-> 0, samples |-> 0,
      usage |-> 0, tiling |-> "OPTIMAL", aux_usage |-> "NONE", size |-> 0, alignment |-> 0,
      bo |-> "NULL", offset |-> 0,
      color_surface |-> ZeroSurface, depth_surface |-> ZeroSurface,
      stencil_surface |-> ZeroSurface, shadow_surface |-> ZeroSurface,
      aux_surface |-> ZeroSurface ]

PrimarySurfaces == { "color_surface", "depth_surface", "stencil_surface" }
SurfaceFields == PrimarySurfaces \cup { "shadow_surface", "aux_surface" }

\* The running result of the layout of one image: the image, the history of
\* what was placed, and whether an assertion has failed.
Running(img) == [ image |-> img, placed |-> << >>, abort |-> FALSE, failed |-> "" ]

\* A failed assert(): the first one that fails is the one that ends the process.
FatalAt(st, what) == [ st EXCEPT !.abort = TRUE, !.failed = what ]

Fatal(st) == FatalAt(st, "assert")

\* History only: an answer of the layout calculator that placed nothing.
Note(st, what) ==
    [ st EXCEPT !.placed = Append(@, [ surf |-> what, offset |-> st.image.size, size |-> 0,
                                       alignment |-> 1 ]) ]

choose_isl_surf_usage(vk_create_flags, vk_usage, aspect) ==
    (IF HasBit(vk_usage, VK_IMAGE_USAGE_SAMPLED_BIT) THEN { "TEXTURE" } ELSE {})
    \cup (IF HasBit(vk_usage, VK_IMAGE_USAGE_INPUT_ATTACHMENT_BIT) THEN { "TEXTURE" } ELSE {})
    \cup (IF HasBit(vk_usage, VK_IMAGE_USAGE_COLOR_ATTACHMENT_BIT)
          THEN { "RENDER_TARGET" } ELSE {})
    \cup (IF HasBit(vk_create_flags, VK_IMAGE_CREATE_CUBE_COMPATIBLE_BIT)
          THEN { "CUBE" } ELSE {})
    \cup (IF aspect = VK_IMAGE_ASPECT_DEPTH_BIT THEN { "DEPTH" }
          ELSE IF aspect = VK_IMAGE_ASPECT_STENCIL_BIT THEN { "STENCIL" } ELSE {})
    \cup (IF HasBit(vk_usage, VK_IMAGE_USAGE_TRANSFER_SRC_BIT) THEN { "TEXTURE" } ELSE {})
    \cup (IF HasBit(vk_usage, VK_IMAGE_USAGE_TRANSFER_DST_BIT)
             /\ aspect = VK_IMAGE_ASPECT_COLOR_BIT
          THEN { "RENDER_TARGET" } ELSE {})

\* The field of the image that get_surface returns a pointer to.
get_surface(aspect) ==
    CASE aspect = VK_IMAGE_ASPECT_COLOR_BIT -> "color_surface"
      [] aspect = VK_IMAGE_ASPECT_DEPTH_BIT -> "depth_surface"
      [] aspect = VK_IMAGE_ASPECT_STENCIL_BIT -> "stencil_surface"

\* add_surface with  image->size += surf->isl.size : the padding in front of
\* the surface is not counted.
add_surface_size_accumulates(st, surf) ==
    IF st.abort THEN st
    ELSE IF ~(st.image[surf].isl.size > 0) THEN Fatal(st)
    ELSE LET isl == st.image[surf].isl
             offset == align_u32(st.image.size, isl.alignment)
         IN [ st EXCEPT
                !.image[surf].offset = offset,
                !.image.size = st.image.size + isl.size,
                !.image.alignment = MAX2(st.image.alignment, isl.alignment),
                !.placed = Append(@, [ surf |-> surf, offset |-> offset, size |-> isl.size,
                                       alignment |-> isl.alignment ]) ]

\* add_surface with  image->alignment = surf->isl.alignment : the last
\* surface's alignment instead of the maximum.
add_surface_last_alignment(st, surf) ==
    IF st.abort THEN st
    ELSE IF ~(st.image[surf].isl.size > 0) THEN Fatal(st)
    ELSE LET isl == st.image[surf].isl
             offset == align_u32(st.image.size, isl.alignment)
         IN [ st EXCEPT
                !.image[surf].offset = offset,
                !.image.size = offset + isl.size,
                !.image.alignment = isl.alignment,
                !.placed = Append(@, [ surf |-> surf, offset |-> offset, size |-> isl.size,
                                       alignment |-> isl.alignment ]) ]

add_surface(st, surf) ==
    IF st.abort THEN st
    ELSE IF ~(st.image[surf].isl.size > 0) THEN Fatal(st)
    ELSE LET isl == st.image[surf].isl
             offset == align_u32(st.image.size, isl.alignment)
         IN [ st EXCEPT
                !.image[surf].offset = offset,
                !.image.size = offset + isl.size,
                !.image.alignment = MAX2(st.image.alignment, isl.alignment),
                !.placed = Append(@, [ surf |-> surf, offset |-> offset, size |-> isl.size,
                                       alignment |-> isl.alignment ]) ]

\* all_formats_ccs_e_compatible that does not look at the format of the image.
all_formats_ccs_e_compatible_views_only(devinfo, vk_info) ==
    LET format == vk_info.format
        fmt_list == vk_info.view_formats
    IN IF ~HasBit(vk_info.flags, VK_IMAGE_CREATE_MUTABLE_FORMAT_BIT) THEN TRUE
       ELSE IF ~fmt_list.present \/ Len(fmt_list.pViewFormats) = 0 THEN FALSE
       ELSE \A i \in 1..Len(fmt_list.pViewFormats) :
               isl_formats_are_ccs_e_compatible(devinfo, format, fmt_list.pViewFormats[i])

all_formats_ccs_e_compatible(devinfo, vk_info) ==
    LET format == vk_info.format
        fmt_list == vk_info.view_formats
    IN IF ~isl_format_supports_ccs_e(devinfo, format) THEN FALSE
       ELSE IF ~HasBit(vk_info.flags, VK_IMAGE_CREATE_MUTABLE_FORMAT_BIT) THEN TRUE
       ELSE IF ~fmt_list.present \/ Len(fmt_list.pViewFormats) = 0 THEN FALSE
       ELSE \A i \in 1..Len(fmt_list.pViewFormats) :
               isl_formats_are_ccs_e_compatible(devinfo, format, fmt_list.pViewFormats[i])

anv_image_aux_levels(img) ==
    IF img.aux_surface.isl.size > 0 THEN img.aux_surface.isl.levels ELSE 0

\* add_fast_clear_state_buffer that reserves one entry, not one per level.
add_fast_clear_state_buffer_one_entry(st, dev) ==
    IF st.abort THEN st
    ELSE LET img == st.image
             entry_size == anv_fast_clear_state_entry_size(dev)
         IN IF ~(img.aux_surface.isl.size > 0 /\ img.aspects = VK_IMAGE_ASPECT_COLOR_BIT)
            THEN Fatal(st)
            ELSE IF img.alignment % 4 # 0 THEN Fatal(st)
            ELSE IF img.aux_surface.isl.size % 4 # 0 THEN Fatal(st)
            ELSE IF img.size # img.aux_surface.offset + img.aux_surface.isl.size
            THEN Fatal(st)
            ELSE IF entry_size % 4 # 0 THEN Fatal(st)
            ELSE [ st EXCEPT
                     !.image.size = @ + entry_size,
                     !.placed = Append(@, [ surf |-> "fast_clear_state", offset |-> img.size,
                                            size |-> entry_size,
                                            alignment |-> 1 ]) ]

add_fast_clear_state_buffer(st, dev) ==
    IF st.abort THEN st
    ELSE LET img == st.image
             entry_size == anv_fast_clear_state_entry_size(dev)
         IN IF ~(img.aux_surface.isl.size > 0 /\ img.aspects = VK_IMAGE_ASPECT_COLOR_BIT)
            THEN Fatal(st)
            ELSE IF img.alignment % 4 # 0 THEN Fatal(st)
            ELSE IF img.aux_surface.isl.size % 4 # 0 THEN Fatal(st)
            ELSE IF img.size # img.aux_surface.offset + img.aux_surface.isl.size
            THEN Fatal(st)
            ELSE IF entry_size % 4 # 0 THEN Fatal(st)
            ELSE [ st EXCEPT
                     !.image.size = @ + entry_size * anv_image_aux_levels(img),
                     !.placed = Append(@, [ surf |-> "fast_clear_state", offset |-> img.size,
                                            size |-> entry_size * anv_image_aux_levels(img),
                                            alignment |-> 1 ]) ]

----------------------------------------------------------------------------
(* The layout calculator's entry points, applied to one of its answers *)

isl_surf_init(ans, format, vk_info, usage, tiling_flags) ==
    [ size |-> ans.size, alignment |-> ans.alignment,
      tiling |-> IF tiling_flags = "LINEAR_BIT" THEN "LINEAR" ELSE "Y0",
      levels |-> vk_info.mipLevels, samples |-> vk_info.samples,
      format |-> format, usage |-> usage ]

isl_surf_get_hiz_surf(ans, surf) ==
    [ ok |-> ans.ok,
      isl |-> [ size |-> ans.size, alignment |-> ans.alignment, tiling |-> "HIZ",
                levels |-> surf.levels, samples |-> surf.samples,
                format |-> "HIZ", usage |-> { "HIZ" } ] ]

isl_surf_get_ccs_surf(ans, surf) ==
    [ ok |-> ans.ok /\ surf.tiling # "LINEAR" /\ ~isl_format_is_compressed(surf.format),
      isl |-> [ size |-> ans.size, alignment |-> ans.alignment, tiling |-> "CCS",
                levels |-> surf.levels, samples |-> 1,
                format |-> "CCS", usage |-> { "CCS" } ] ]

isl_surf_get_mcs_surf(ans, surf) ==
    [ ok |-> ans.ok /\ surf.tiling # "LINEAR",
      isl |-> [ size |-> ans.size, alignment |-> ans.alignment, tiling |-> "Y0",
                levels |-> 1, samples |-> 1,
                format |-> "MCS", usage |-> { "MCS" } ] ]

----------------------------------------------------------------------------
(* make_surface.  Each operator yields the set of results the layout        *)
(* calculator's possible answers lead to.                                   *)

\* The depth branch with  gen <= 8  in place of  gen == 7 .
make_surface_hiz_gen8_skipped(dev, debug, st, vk_info) ==
    IF st.abort THEN { st }
    ELSE IF HasBit(st.image.usage, VK_IMAGE_USAGE_STORAGE_BIT) THEN { Fatal(st) }
    ELSE IF ~HasBit(st.image.usage, VK_IMAGE_USAGE_DEPTH_STENCIL_ATTACHMENT_BIT) THEN { st }
    ELSE IF dev.info.gen <= 8 THEN { st }
    ELSE IF vk_info.mipLevels > 1 THEN { st }
    ELSE IF vk_info.arrayLayers > 1 THEN { st }
    ELSE IF dev.info.gen = 8 /\ vk_info.samples > 1 THEN { st }
    ELSE IF "NO_HIZ" \in debug THEN { st }
    ELSE IF st.image.aux_surface.isl.size # 0 THEN { FatalAt(st, "aux_not_empty") }
    ELSE { LET hiz == isl_surf_get_hiz_surf(aux, st.image.depth_surface.isl)
           IN IF ~hiz.ok THEN FatalAt(st, "hiz_refused")
              ELSE LET s1 == add_surface([ st EXCEPT !.image.aux_surface.isl = hiz.isl ],
                                         "aux_surface")
                   IN [ s1 EXCEPT !.image.aux_usage = "HIZ" ]
           : aux \in IslAuxAnswers(dev.isl_dev) }

\* The depth branch without the arrayLayers > 1 test.
make_surface_hiz_any_layers(dev, debug, st, vk_info) ==
    IF st.abort THEN { st }
    ELSE IF HasBit(st.image.usage, VK_IMAGE_USAGE_STORAGE_BIT) THEN { Fatal(st) }
    ELSE IF ~HasBit(st.image.usage, VK_IMAGE_USAGE_DEPTH_STENCIL_ATTACHMENT_BIT) THEN { st }
    ELSE IF dev.info.gen = 7 THEN { st }
    ELSE IF vk_info.mipLevels > 1 THEN { st }
    ELSE IF dev.info.gen = 8 /\ vk_info.samples > 1 THEN { st }
    ELSE IF "NO_HIZ" \in debug THEN { st }
    ELSE IF st.image.aux_surface.isl.size # 0 THEN { FatalAt(st, "aux_not_empty") }
    ELSE { LET hiz == isl_surf_get_hiz_surf(aux, st.image.depth_surface.isl)
           IN IF ~hiz.ok THEN FatalAt(st, "hiz_refused")
              ELSE LET s1 == add_surface([ st EXCEPT !.image.aux_surface.isl = hiz.isl ],
                                         "aux_surface")
                   IN [ s1 EXCEPT !.image.aux_usage = "HIZ" ]
           : aux \in IslAuxAnswers(dev.isl_dev) }

\* The depth branch: a HiZ surface for a depth buffer used for rendering.
make_surface_hiz(dev, debug, st, vk_info) ==
    IF st.abort THEN { st }
    ELSE IF HasBit(st.image.usage, VK_IMAGE_USAGE_STORAGE_BIT) THEN { Fatal(st) }
    ELSE IF ~HasBit(st.image.usage, VK_IMAGE_USAGE_DEPTH_STENCIL_ATTACHMENT_BIT) THEN { st }
    ELSE IF dev.info.gen = 7 THEN { st }
    ELSE IF vk_info.mipLevels > 1 THEN { st }
    ELSE IF vk_info.arrayLayers > 1 THEN { st }
    ELSE IF dev.info.gen = 8 /\ vk_info.samples > 1 THEN { st }
    ELSE IF "NO_HIZ" \in debug THEN { st }
    ELSE IF st.image.aux_surface.isl.size # 0 THEN { FatalAt(st, "aux_not_empty") }
    ELSE { LET hiz == isl_surf_get_hiz_surf(aux, st.image.depth_surface.isl)
           IN IF ~hiz.ok THEN FatalAt(st, "hiz_refused")
              ELSE LET s1 == add_surface([ st EXCEPT !.image.aux_surface.isl = hiz.isl ],
                                         "aux_surface")
                   IN [ s1 EXCEPT !.image.aux_usage = "HIZ" ]
           : aux \in IslAuxAnswers(dev.isl_dev) }

\* The single-sample colour branch that places the CCS surface before it
\* drops it for a format that cannot be rendered to.
make_surface_ccs_truncate_after_add(dev, debug, st, vk_info, surf, format) ==
    IF st.abort THEN { st }
    ELSE IF "NO_RBC" \in debug THEN { st }
    ELSE IF st.image.aux_surface.isl.size # 0 THEN { FatalAt(st, "aux_not_empty") }
    ELSE { LET ccs == isl_surf_get_ccs_surf(aux, st.image[surf].isl)
           IN IF ~ccs.ok THEN Note(st, "ccs_refused")
              ELSE IF ~isl_format_supports_rendering(dev.info, format)
              THEN LET s1 == add_surface([ st EXCEPT !.image.aux_surface.isl = ccs.isl ],
                                         "aux_surface")
                   IN Note([ s1 EXCEPT !.image.aux_surface.isl.size = 0 ], "ccs_abandoned")
              ELSE LET s1 == add_surface([ st EXCEPT !.image.aux_surface.isl = ccs.isl ],
                                         "aux_surface")
                       s2 == add_fast_clear_state_buffer(s1, dev)
                   IN IF ~HasBit(vk_info.usage, VK_IMAGE_USAGE_STORAGE_BIT)
                         /\ all_formats_ccs_e_compatible(dev.info, vk_info)
                      THEN [ s2 EXCEPT !.image.aux_usage = "CCS_E" ]
                      ELSE s2
           : aux \in IslAuxAnswers(dev.isl_dev) }

\* The single-sample colour branch: a CCS surface and the fast-clear block.
make_surface_ccs(dev, debug, st, vk_info, surf, format) ==
    IF st.abort THEN { st }
    ELSE IF "NO_RBC" \in debug THEN { st }
    ELSE IF st.image.aux_surface.isl.size # 0 THEN { FatalAt(st, "aux_not_empty") }
    ELSE { LET ccs == isl_surf_get_ccs_surf(aux, st.image[surf].isl)
           IN IF ~ccs.ok THEN Note(st, "ccs_refused")
              ELSE IF ~isl_format_supports_rendering(dev.info, format)
              THEN Note([ st EXCEPT !.image.aux_surface.isl = [ ccs.isl EXCEPT !.size = 0 ] ],
                        "ccs_abandoned")
              ELSE LET s1 == add_surface([ st EXCEPT !.image.aux_surface.isl = ccs.isl ],
                                         "aux_surface")
                       s2 == add_fast_clear_state_buffer(s1, dev)
                   IN IF ~HasBit(vk_info.usage, VK_IMAGE_USAGE_STORAGE_BIT)
                         /\ all_formats_ccs_e_compatible(dev.info, vk_info)
                      THEN [ s2 EXCEPT !.image.aux_usage = "CCS_E" ]
                      ELSE s2
           : aux \in IslAuxAnswers(dev.isl_dev) }

\* The multisample colour branch: an MCS surface and the fast-clear block.
make_surface_mcs(dev, st, vk_info, surf) ==
    IF st.abort THEN { st }
    ELSE IF st.image.aux_surface.isl.size # 0 THEN { FatalAt(st, "aux_not_empty") }
    ELSE IF HasBit(vk_info.usage, VK_IMAGE_USAGE_STORAGE_BIT) THEN { Fatal(st) }
    ELSE { LET mcs == isl_surf_get_mcs_surf(aux, st.image[surf].isl)
           IN IF ~mcs.ok THEN Note(st, "mcs_refused")
              ELSE LET s1 == add_surface([ st EXCEPT !.image.aux_surface.isl = mcs.isl ],
                                         "aux_surface")
                       s2 == add_fast_clear_state_buffer(s1, dev)
                   IN [ s2 EXCEPT !.image.aux_usage = "MCS" ]
           : aux \in IslAuxAnswers(dev.isl_dev) }

\* Whether make_surface needs a shadow surface.
needs_shadow(dev, vk_info) ==
    /\ dev.info.gen <= 8
    /\ HasBit(vk_info.flags, VK_IMAGE_CREATE_BLOCK_TEXEL_VIEW_COMPATIBLE_BIT_KHR)
    /\ vk_info.tiling = "OPTIMAL"

\* The primary surface of the aspect: isl_surf_init and add_surface.
make_surface_primary(dev, st, vk_info, aspect) ==
    LET surf == get_surface(aspect)
        shadowed == needs_shadow(dev, vk_info)
        tiling_flags == IF shadowed \/ vk_info.tiling = "LINEAR"
                        THEN "LINEAR_BIT" ELSE "ANY_MASK"
        s0 == IF shadowed /\ ~isl_format_is_compressed(vk_info.format) THEN Fatal(st) ELSE st
    IN { add_surface(
            [ s0 EXCEPT !.image[surf].isl =
                 isl_surf_init(prim, vk_info.format, vk_info,
                               choose_isl_surf_usage(vk_info.flags, st.image.usage, aspect),
                               tiling_flags) ],
            surf)
         : prim \in IslAnswers(dev.isl_dev) }

\* The shadow surface, when one is needed.
make_surface_shadow(dev, st, vk_info, aspect) ==
    IF ~needs_shadow(dev, vk_info) THEN { st }
    ELSE IF aspect # VK_IMAGE_ASPECT_COLOR_BIT THEN { Fatal(st) }
    ELSE { add_surface(
              [ st EXCEPT !.image.shadow_surface.isl =
                   isl_surf_init(shadow, vk_info.format, vk_info,
                                 choose_isl_surf_usage(st.image.usage, st.image.usage, aspect),
                                 "ANY_MASK") ],
              "shadow_surface")
           : shadow \in IslAnswers(dev.isl_dev) }

\* The auxiliary surface of the aspect, with the stencil aspect sent down the
\* depth path as well.
make_surface_aux_stencil_like_depth(dev, debug, st, vk_info, aspect) ==
    IF aspect \in { VK_IMAGE_ASPECT_DEPTH_BIT, VK_IMAGE_ASPECT_STENCIL_BIT }
    THEN make_surface_hiz(dev, debug, st, vk_info)
    ELSE IF aspect = VK_IMAGE_ASPECT_COLOR_BIT /\ vk_info.samples = 1
    THEN make_surface_ccs(dev, debug, st, vk_info, get_surface(aspect), vk_info.format)
    ELSE IF aspect = VK_IMAGE_ASPECT_COLOR_BIT /\ vk_info.samples > 1
    THEN make_surface_mcs(dev, st, vk_info, get_surface(aspect))
    ELSE { st }

\* The auxiliary surface of the aspect.
make_surface_aux(dev, debug, st, vk_info, aspect) ==
    IF aspect = VK_IMAGE_ASPECT_DEPTH_BIT
    THEN make_surface_hiz(dev, debug, st, vk_info)
    ELSE IF aspect = VK_IMAGE_ASPECT_COLOR_BIT /\ vk_info.samples = 1
    THEN make_surface_ccs(dev, debug, st, vk_info, get_surface(aspect), vk_info.format)
    ELSE IF aspect = VK_IMAGE_ASPECT_COLOR_BIT /\ vk_info.samples > 1
    THEN make_surface_mcs(dev, st, vk_info, get_surface(aspect))
    ELSE { st }

\* make_surface that lays out the shadow surface before the primary one.
make_surface_shadow_first(dev, debug, st, vk_info, aspect) ==
    UNION { UNION { make_surface_aux(dev, debug, s2, vk_info, aspect)
                    : s2 \in make_surface_primary(dev, s1, vk_info, aspect) }
            : s1 \in make_surface_shadow(dev, st, vk_info, aspect) }

\* make_surface(dev, image, anv_info, aspect): the results it may end in.
make_surface(dev, debug, st, vk_info, aspect) ==
    UNION { UNION { make_surface_aux(dev, debug, s2, vk_info, aspect)
                    : s2 \in make_surface_shadow(dev, s1, vk_info, aspect) }
            : s1 \in make_surface_primary(dev, st, vk_info, aspect) }

----------------------------------------------------------------------------
(* anv_layout_to_aux_usage *)

anv_can_sample_with_hiz(devinfo, aspect_mask, samples) ==
    devinfo.gen >= 8 /\ HasBit(aspect_mask, VK_IMAGE_ASPECT_DEPTH_BIT) /\ samples = 1

\* The switch without the case DEPTH_ATTACHMENT_STENCIL_READ_ONLY_OPTIMAL_KHR,
\* which then falls to the unreachable() after the switch.
layout_switch_missing_case(devinfo, img, aspects, layout) ==
    LET color_aspect == aspects = VK_IMAGE_ASPECT_COLOR_BIT
    IN CASE layout \in { "RANGE_SIZE", "MAX_ENUM" } -> "UNREACHABLE"
         [] layout \in { "UNDEFINED", "PREINITIALIZED" } -> "NONE"
         [] layout \in { "GENERAL", "TRANSFER_DST_OPTIMAL", "TRANSFER_SRC_OPTIMAL" } -> "NONE"
         [] layout \in { "DEPTH_STENCIL_READ_ONLY_OPTIMAL", "SHADER_READ_ONLY_OPTIMAL",
                         "DEPTH_READ_ONLY_STENCIL_ATTACHMENT_OPTIMAL_KHR" }
               -> IF layout = "DEPTH_STENCIL_READ_ONLY_OPTIMAL" /\ color_aspect
                  THEN "ASSERT"
                  ELSE IF anv_can_sample_with_hiz(devinfo, aspects, img.samples)
                  THEN "HIZ" ELSE "NONE"
         [] layout = "PRESENT_SRC_KHR" -> IF ~color_aspect THEN "ASSERT" ELSE "NONE"
         [] layout = "COLOR_ATTACHMENT_OPTIMAL"
               -> IF ~color_aspect THEN "ASSERT" ELSE "UNREACHABLE"
         [] layout \in { "DEPTH_STENCIL_ATTACHMENT_OPTIMAL" }
               -> IF color_aspect THEN "ASSERT" ELSE "HIZ"
         [] layout = "SHARED_PRESENT_KHR" -> "UNREACHABLE"
         [] OTHER -> "UNREACHABLE"

\* The switch whose attachment layouts ask anv_can_sample_with_hiz, as the
\* sampling layouts do.
layout_switch_attachment_needs_sampling(devinfo, img, aspects, layout) ==
    LET color_aspect == aspects = VK_IMAGE_ASPECT_COLOR_BIT
    IN CASE layout \in { "RANGE_SIZE", "MAX_ENUM" } -> "UNREACHABLE"
         [] layout \in { "UNDEFINED", "PREINITIALIZED" } -> "NONE"
         [] layout \in { "GENERAL", "TRANSFER_DST_OPTIMAL", "TRANSFER_SRC_OPTIMAL" } -> "NONE"
         [] layout \in { "DEPTH_STENCIL_READ_ONLY_OPTIMAL", "SHADER_READ_ONLY_OPTIMAL",
                         "DEPTH_READ_ONLY_STENCIL_ATTACHMENT_OPTIMAL_KHR" }
               -> IF layout = "DEPTH_STENCIL_READ_ONLY_OPTIMAL" /\ color_aspect
                  THEN "ASSERT"
                  ELSE IF anv_can_sample_with_hiz(devinfo, aspects, img.samples)
                  THEN "HIZ" ELSE "NONE"
         [] layout = "PRESENT_SRC_KHR" -> IF ~color_aspect THEN "ASSERT" ELSE "NONE"
         [] layout = "COLOR_ATTACHMENT_OPTIMAL"
               -> IF ~color_aspect THEN "ASSERT" ELSE "UNREACHABLE"
         [] layout \in { "DEPTH_STENCIL_ATTACHMENT_OPTIMAL",
                         "DEPTH_ATTACHMENT_STENCIL_READ_ONLY_OPTIMAL_KHR" }
               -> IF color_aspect THEN "ASSERT"
                  ELSE IF anv_can_sample_with_hiz(devinfo, aspects, img.samples)
                  THEN "HIZ" ELSE "NONE"
         [] layout = "SHARED_PRESENT_KHR" -> "UNREACHABLE"
         [] OTHER -> "UNREACHABLE"

\* The switch whose sampling layouts return HIZ without asking
\* anv_can_sample_with_hiz.
layout_switch_sampling_always_hiz(devinfo, img, aspects, layout) ==
    LET color_aspect == aspects = VK_IMAGE_ASPECT_COLOR_BIT
    IN CASE layout \in { "RANGE_SIZE", "MAX_ENUM" } -> "UNREACHABLE"
         [] layout \in { "UNDEFINED", "PREINITIALIZED" } -> "NONE"
         [] layout \in { "GENERAL", "TRANSFER_DST_OPTIMAL", "TRANSFER_SRC_OPTIMAL" } -> "NONE"
         [] layout \in { "DEPTH_STENCIL_READ_ONLY_OPTIMAL", "SHADER_READ_ONLY_OPTIMAL",
                         "DEPTH_READ_ONLY_STENCIL_ATTACHMENT_OPTIMAL_KHR" }
               -> IF layout = "DEPTH_STENCIL_READ_ONLY_OPTIMAL" /\ color_aspect
                  THEN "ASSERT"
                  ELSE "HIZ"
         [] layout = "PRESENT_SRC_KHR" -> IF ~color_aspect THEN "ASSERT" ELSE "NONE"
         [] layout = "COLOR_ATTACHMENT_OPTIMAL"
               -> IF ~color_aspect THEN "ASSERT" ELSE "UNREACHABLE"
         [] layout \in { "DEPTH_STENCIL_ATTACHMENT_OPTIMAL",
                         "DEPTH_ATTACHMENT_STENCIL_READ_ONLY_OPTIMAL_KHR" }
               -> IF color_aspect THEN "ASSERT" ELSE "HIZ"
         [] layout = "SHARED_PRESENT_KHR" -> "UNREACHABLE"
         [] OTHER -> "UNREACHABLE"

\* The switch followed by  return ISL_AUX_USAGE_NONE  in place of the final
\* unreachable().
layout_switch_default_none(devinfo, img, aspects, layout) ==
    LET color_aspect == aspects = VK_IMAGE_ASPECT_COLOR_BIT
    IN CASE layout \in { "RANGE_SIZE", "MAX_ENUM" } -> "UNREACHABLE"
         [] layout \in { "UNDEFINED", "PREINITIALIZED" } -> "NONE"
         [] layout \in { "GENERAL", "TRANSFER_DST_OPTIMAL", "TRANSFER_SRC_OPTIMAL" } -> "NONE"
         [] layout \in { "DEPTH_STENCIL_READ_ONLY_OPTIMAL", "SHADER_READ_ONLY_OPTIMAL",
                         "DEPTH_READ_ONLY_STENCIL_ATTACHMENT_OPTIMAL_KHR" }
               -> IF layout = "DEPTH_STENCIL_READ_ONLY_OPTIMAL" /\ color_aspect
                  THEN "ASSERT"
                  ELSE IF anv_can_sample_with_hiz(devinfo, aspects, img.samples)
                  THEN "HIZ" ELSE "NONE"
         [] layout = "PRESENT_SRC_KHR" -> IF ~color_aspect THEN "ASSERT" ELSE "NONE"
         [] layout = "COLOR_ATTACHMENT_OPTIMAL"
               -> IF ~color_aspect THEN "ASSERT" ELSE "UNREACHABLE"
         [] layout \in { "DEPTH_STENCIL_ATTACHMENT_OPTIMAL",
                         "DEPTH_ATTACHMENT_STENCIL_READ_ONLY_OPTIMAL_KHR" }
               -> IF color_aspect THEN "ASSERT" ELSE "HIZ"
         [] layout = "SHARED_PRESENT_KHR" -> "UNREACHABLE"
         [] OTHER -> "NONE"

\* The switch without the assertion of the PRESENT_SRC case.
layout_switch_present_none(devinfo, img, aspects, layout) ==
    LET color_aspect == aspects = VK_IMAGE_ASPECT_COLOR_BIT
    IN CASE layout \in { "RANGE_SIZE", "MAX_ENUM" } -> "UNREACHABLE"
         [] layout \in { "UNDEFINED", "PREINITIALIZED" } -> "NONE"
         [] layout \in { "GENERAL", "TRANSFER_DST_OPTIMAL", "TRANSFER_SRC_OPTIMAL" } -> "NONE"
         [] layout \in { "DEPTH_STENCIL_READ_ONLY_OPTIMAL", "SHADER_READ_ONLY_OPTIMAL",
                         "DEPTH_READ_ONLY_STENCIL_ATTACHMENT_OPTIMAL_KHR" }
               -> IF layout = "DEPTH_STENCIL_READ_ONLY_OPTIMAL" /\ color_aspect
                  THEN "ASSERT"
                  ELSE IF anv_can_sample_with_hiz(devinfo, aspects, img.samples)
                  THEN "HIZ" ELSE "NONE"
         [] layout = "PRESENT_SRC_KHR" -> "NONE"
         [] layout = "COLOR_ATTACHMENT_OPTIMAL"
               -> IF ~color_aspect THEN "ASSERT" ELSE "UNREACHABLE"
         [] layout \in { "DEPTH_STENCIL_ATTACHMENT_OPTIMAL",
                         "DEPTH_ATTACHMENT_STENCIL_READ_ONLY_OPTIMAL_KHR" }
               -> IF color_aspect THEN "ASSERT" ELSE "HIZ"
         [] layout = "SHARED_PRESENT_KHR" -> "UNREACHABLE"
         [] OTHER -> "UNREACHABLE"

\* The switch over the layout, reached for depth and stencil accesses.
layout_switch(devinfo, img, aspects, layout) ==
    LET color_aspect == aspects = VK_IMAGE_ASPECT_COLOR_BIT
    IN CASE layout \in { "RANGE_SIZE", "MAX_ENUM" } -> "UNREACHABLE"
         [] layout \in { "UNDEFINED", "PREINITIALIZED" } -> "NONE"
         [] layout \in { "GENERAL", "TRANSFER_DST_OPTIMAL", "TRANSFER_SRC_OPTIMAL" } -> "NONE"
         [] layout \in { "DEPTH_STENCIL_READ_ONLY_OPTIMAL", "SHADER_READ_ONLY_OPTIMAL",
                         "DEPTH_READ_ONLY_STENCIL_ATTACHMENT_OPTIMAL_KHR" }
               -> IF layout = "DEPTH_STENCIL_READ_ONLY_OPTIMAL" /\ color_aspect
                  THEN "ASSERT"
                  ELSE IF anv_can_sample_with_hiz(devinfo, aspects, img.samples)
                  THEN "HIZ" ELSE "NONE"
         [] layout = "PRESENT_SRC_KHR" -> IF ~color_aspect THEN "ASSERT" ELSE "NONE"
         [] layout = "COLOR_ATTACHMENT_OPTIMAL"
               -> IF ~color_aspect THEN "ASSERT" ELSE "UNREACHABLE"
         [] layout \in { "DEPTH_STENCIL_ATTACHMENT_OPTIMAL",
                         "DEPTH_ATTACHMENT_STENCIL_READ_ONLY_OPTIMAL_KHR" }
               -> IF color_aspect THEN "ASSERT" ELSE "HIZ"
         [] layout = "SHARED_PRESENT_KHR" -> "UNREACHABLE"
         [] OTHER -> "UNREACHABLE"

\* anv_layout_to_aux_usage without the early return for an image that has
\* no auxiliary surface.
anv_layout_to_aux_usage_no_early_return(devinfo, img, aspects, layout) ==
    IF ~(BitAnd(aspects, img.aspects) # 0 /\ aspects <= img.aspects) THEN "ASSERT"
    ELSE IF img.tiling # "OPTIMAL" THEN "ASSERT"
    ELSE IF devinfo.gen < 8 /\ aspects = VK_IMAGE_ASPECT_STENCIL_BIT THEN "NONE"
    ELSE IF aspects = VK_IMAGE_ASPECT_COLOR_BIT THEN img.aux_usage
    ELSE layout_switch(devinfo, img, aspects, layout)

\* anv_layout_to_aux_usage without the stencil-only rule for gen < 8.
anv_layout_to_aux_usage_no_gen_check(devinfo, img, aspects, layout) ==
    IF ~(BitAnd(aspects, img.aspects) # 0 /\ aspects <= img.aspects) THEN "ASSERT"
    ELSE IF img.aux_surface.isl.size = 0 THEN "NONE"
    ELSE IF img.tiling # "OPTIMAL" THEN "ASSERT"
    ELSE IF aspects = VK_IMAGE_ASPECT_COLOR_BIT THEN img.aux_usage
    ELSE layout_switch(devinfo, img, aspects, layout)

\* anv_layout_to_aux_usage that sends the colour aspect through the switch.
anv_layout_to_aux_usage_color_in_switch(devinfo, img, aspects, layout) ==
    IF ~(BitAnd(aspects, img.aspects) # 0 /\ aspects <= img.aspects) THEN "ASSERT"
    ELSE IF img.aux_surface.isl.size = 0 THEN "NONE"
    ELSE IF img.tiling # "OPTIMAL" THEN "ASSERT"
    ELSE IF devinfo.gen < 8 /\ aspects = VK_IMAGE_ASPECT_STENCIL_BIT THEN "NONE"
    ELSE layout_switch(devinfo, img, aspects, layout)

anv_layout_to_aux_usage(devinfo, img, aspects, layout) ==
    IF ~(BitAnd(aspects, img.aspects) # 0 /\ aspects <= img.aspects) THEN "ASSERT"
    ELSE IF img.aux_surface.isl.size = 0 THEN "NONE"
    ELSE IF img.tiling # "OPTIMAL" THEN "ASSERT"
    ELSE IF devinfo.gen < 8 /\ aspects = VK_IMAGE_ASPECT_STENCIL_BIT THEN "NONE"
    ELSE IF aspects = VK_IMAGE_ASPECT_COLOR_BIT THEN img.aux_usage
    ELSE layout_switch(devinfo, img, aspects, layout)

----------------------------------------------------------------------------
(* The state machine *)

\* No view of the image exists.
NoView == [ live |-> FALSE ]

\* The Panfrost screen of a run that has none.
NoScreen == [ state |-> "none" ]

NoCall == [ op |-> "none", aspects |-> 0, layout |-> "UNDEFINED", result |-> "NONE" ]

InitWith(granule) ==
    /\ device \in Devices(granule)
    /\ INTEL_DEBUG \in SUBSET { "NO_HIZ", "NO_RBC" }
    /\ create_info = NoCreateInfo
    /\ image = ZeroImage
    /\ pc = "start"
    /\ b = 0
    /\ placed = << >>
    /\ call = NoCall
    /\ iview = NoView
    /\ pscreen = NoScreen

\* for_each_bit: the lowest bit of mask that is >= from, 0 when there is none.
NextBit(mask, from) ==
    LET S == { bit \in { 1, 2, 4 } : bit >= from /\ HasBit(mask, bit) }
    IN IF S = {} THEN 0 ELSE CHOOSE bit \in S : \A o \in S : bit <= o

\* anv_image_create up to the surface loop: the allocation of the image object
\* and the copy of the create info into it.
ImageCreateFrom(infos) ==
    /\ pc = "start"
    /\ \E ci \in infos, alloc_ok \in BOOLEAN :
          /\ create_info' = ci
          /\ IF ~alloc_ok
             THEN /\ pc' = "oom"
                  /\ UNCHANGED << image, b >>
             ELSE /\ image' = [ ZeroImage EXCEPT
                                  !.type = ci.imageType,
                                  !.extent = ci.extent,
                                  !.vk_format = ci.format,
                                  !.aspects = vk_format_aspects(ci.format),
                                  !.levels = ci.mipLevels,
                                  !.array_size = ci.arrayLayers,
                                  !.samples = ci.samples,
                                  !.usage = ci.usage,
                                  !.tiling = ci.tiling,
                                  !.aux_usage = "NONE" ]
                  /\ pc' = "loop"
                  /\ b' = NextBit(vk_format_aspects(ci.format), 1)
    /\ UNCHANGED << device, INTEL_DEBUG, placed, call, iview, pscreen >>

ImageCreateBegin == ImageCreateFrom(CreateInfos)

\* One iteration of anv_image_create's for_each_bit loop: make_surface for
\* aspect bit b; after the last aspect the image handle is returned.
MakeSurfaceStep ==
    /\ pc = "loop"
    /\ \E st \in make_surface(device, INTEL_DEBUG, Running(image), create_info, b) :
          LET nb == NextBit(image.aspects, 2 * b)
          IN IF st.abort
             THEN /\ pc' = "abort"
                  /\ image' = ZeroImage
                  /\ placed' = << [ surf |-> st.failed, offset |-> 0, size |-> 0,
                                    alignment |-> 1 ] >>
                  /\ b' = 0
             ELSE /\ image' = st.image
                  /\ placed' = placed \o st.placed
                  /\ b' = nb
                  /\ pc' = IF nb = 0 THEN "done" ELSE "loop"
    /\ UNCHANGED << device, INTEL_DEBUG, create_info, call, iview, pscreen >>

\* The aspect masks that pass the input validation of anv_layout_to_aux_usage.
AcceptedAspects(img) ==
    { a \in 0..7 : BitAnd(a, img.aspects) # 0 /\ a <= img.aspects }

\* A call of anv_layout_to_aux_usage on the finished image.
\* The function is pure and call holds the last call only, so calls after the
\* first reach no state that a first call does not reach.
LayoutToAuxUsage(masks, layouts) ==
    /\ pc = "done"
    /\ call = NoCall
    /\ \E aspects \in masks, layout \in layouts :
          call' = [ op |-> "anv_layout_to_aux_usage", aspects |-> aspects, layout |-> layout,
                    result |-> anv_layout_to_aux_usage(device.info, image, aspects, layout) ]
    /\ UNCHANGED << device, INTEL_DEBUG, create_info, image, pc, b, placed, iview, pscreen >>

Init == InitWith("tile")

Next ==
    \/ ImageCreateBegin
    \/ MakeSurfaceStep
    \/ LayoutToAuxUsage(AcceptedAspects(image), VkImageLayouts)

Spec == Init /\ [][Next]_vars

\* Image creation alone, with a layout calculator that may answer anything.
InitPlace == InitWith("any")

NextPlace ==
    \/ ImageCreateBegin
    \/ MakeSurfaceStep

SpecPlace == InitPlace /\ [][NextPlace]_vars

\* anv_layout_to_aux_usage as a function of its arguments: any device
\* generation, any image that keeps "an image with an auxiliary surface is
\* tiled", any aspect mask and any value of the layout type.
ResolverImages ==
    { [ ZeroImage EXCEPT !.aspects = a, !.samples = n, !.tiling = t, !.aux_usage = u,
                         !.aux_surface.isl.size = sz ] :
        a \in { 1, 2, 4, 6 }, n \in { 1, 4 }, t \in { "OPTIMAL", "LINEAR" },
        u \in AuxUsages, sz \in { 0, 4 } }

InitResolve ==
    /\ device \in Devices("tile")
    /\ INTEL_DEBUG = {}
    /\ create_info = NoCreateInfo
    /\ image \in { img \in ResolverImages :
                     /\ img.aux_surface.isl.size > 0 => img.tiling = "OPTIMAL"
                     /\ img.aux_usage # "NONE" => img.aux_surface.isl.size > 0 }
    /\ pc = "done"
    /\ b = 0
    /\ placed = << >>
    /\ call = NoCall
    /\ iview = NoView
    /\ pscreen = NoScreen

NextResolve == LayoutToAuxUsage(0..7, VkImageLayouts \cup InvalidLayouts)

SpecResolve == InitResolve /\ [][NextResolve]_vars

----------------------------------------------------------------------------
(* Memory binding and subresource queries on the finished image *)

\* uint32_t arithmetic. The model keeps 16 of the 32 bits: its values stay
\* far below 2^16 unless a subtraction wraps below zero.
UINT32_MAX == 65535

Wrap(x) == x % (UINT32_MAX + 1)

\* ~0U: "all the remaining layers", "all the remaining levels".
VK_REMAINING_ARRAY_LAYERS == UINT32_MAX
VK_REMAINING_MIP_LEVELS == UINT32_MAX

\* The memory offsets an application binds an image at: the image's alignment
\* is a whole number of 4K pages.
MemoryOffsets == { 0, 4096 }

\* A failed assert() or unreachable() in an entry point that is called on the
\* finished image: the process ends there and the image is left as it was.
AbortedIn(op, args) ==
    /\ pc' = "abort"
    /\ call' = [ op |-> op, args |-> args, result |-> "ASSERT" ]

\* The image after anv_bind_image_memory, with one more surface moved.
anv_bind_image_memory_moves_aux(img, mem, memoryOffset) ==
    IF mem = "NULL"
    THEN [ img EXCEPT !.bo = "NULL", !.offset = 0 ]
    ELSE [ img EXCEPT !.bo = mem, !.offset = memoryOffset,
                      !.aux_surface.offset = @ + memoryOffset ]

\* The image after anv_bind_image_memory(pBindInfo).
anv_bind_image_memory(img, mem, memoryOffset) ==
    IF mem = "NULL"
    THEN [ img EXCEPT !.bo = "NULL", !.offset = 0 ]
    ELSE [ img EXCEPT !.bo = mem, !.offset = memoryOffset ]

\* anv_BindImageMemory: one binding, VK_SUCCESS.
BindImageMemory ==
    /\ pc = "done"
    /\ \E mem \in { "NULL", "bo" }, memoryOffset \in MemoryOffsets :
          /\ image' = anv_bind_image_memory(image, mem, memoryOffset)
          /\ call' = [ op |-> "anv_BindImageMemory",
                       args |-> [ memory |-> mem, memoryOffset |-> memoryOffset ],
                       result |-> "VK_SUCCESS" ]
    /\ UNCHANGED << device, INTEL_DEBUG, create_info, pc, b, placed, iview, pscreen >>

RECURSIVE bind_all(_, _)
\* The loop of anv_BindImageMemory2KHR over pBindInfos.
bind_all(img, pBindInfos) ==
    IF pBindInfos = << >> THEN img
    ELSE bind_all(anv_bind_image_memory(img, Head(pBindInfos).memory,
                                        Head(pBindInfos).memoryOffset),
                  Tail(pBindInfos))

\* anv_BindImageMemory2KHR: bindInfoCount bindings of this image, in order.
BindImageMemory2KHR ==
    /\ pc = "done"
    /\ \E pBindInfos \in SeqsUpTo([ memory : { "NULL", "bo" },
                                    memoryOffset : MemoryOffsets ], 2) :
          /\ image' = bind_all(image, pBindInfos)
          /\ call' = [ op |-> "anv_BindImageMemory2KHR",
                       args |-> [ bindInfoCount |-> Len(pBindInfos) ],
                       result |-> "VK_SUCCESS" ]
    /\ UNCHANGED << device, INTEL_DEBUG, create_info, pc, b, placed, iview, pscreen >>

\* What anv_surface_get_subresource_layout writes: the two anv_assert() on
\* the subresource only print, and the pitches are the layout calculator's.
anv_surface_get_subresource_layout(img, surface, subresource) ==
    [ offset |-> surface.offset, size |-> surface.isl.size ]

popcount(mask) == Cardinality({ bit \in FlagBits : HasBit(mask, bit) })

\* anv_GetImageSubresourceLayout.
GetImageSubresourceLayout ==
    /\ pc = "done"
    /\ \E aspectMask \in { 1, 2, 4, 6, 8 }, mipLevel \in { 0 } :
          LET pSubresource == [ aspectMask |-> aspectMask, mipLevel |-> mipLevel,
                                arrayLayer |-> 0 ]
          IN IF popcount(aspectMask) # 1
                \/ aspectMask \notin { VK_IMAGE_ASPECT_COLOR_BIT, VK_IMAGE_ASPECT_DEPTH_BIT,
                                       VK_IMAGE_ASPECT_STENCIL_BIT }
             THEN AbortedIn("anv_GetImageSubresourceLayout", pSubresource)
             ELSE /\ call' = [ op |-> "anv_GetImageSubresourceLayout",
                               args |-> pSubresource,
                               result |-> anv_surface_get_subresource_layout(
                                             image, image[get_surface(aspectMask)],
                                             pSubresource) ]
                  /\ pc' = pc
    /\ UNCHANGED << device, INTEL_DEBUG, create_info, image, b, placed, iview, pscreen >>

----------------------------------------------------------------------------
(* Surface states: alloc_surface_state and anv_image_fill_surface_state *)

\* struct anv_state of no allocation, and of one 64-byte slot of the
\* surface-state pool.
ANV_STATE_NULL == [ alloc_size |-> 0, map |-> "NULL" ]

PoolSlot == [ alloc_size |-> 64, map |-> "slot" ]

\* struct anv_surface_state, all zero. descriptor tells what the hardware
\* descriptor that state.map points at holds: "none", "filled", or "stray"
\* when it was written through a map that is no slot.
\* format is the format written into that descriptor, ISL_FORMAT_RAW for the
\* buffer encoding.
ZeroSurfaceState ==
    [ state |-> ANV_STATE_NULL, address |-> 0, aux_address |-> 0, descriptor |-> "none",
      format |-> "none" ]

\* alloc_surface_state: a slot while the pool has one left.
alloc_surface_state(slots_left) == IF slots_left > 0 THEN PoolSlot ELSE ANV_STATE_NULL

\* The field of the image anv_image_get_surface_for_aspect_mask points at;
\* "fatal" where one of its assert() or its unreachable() is hit.
anv_image_get_surface_for_aspect_mask(img, aspect_mask) ==
    CASE aspect_mask = VK_IMAGE_ASPECT_COLOR_BIT ->
             IF img.aspects = VK_IMAGE_ASPECT_COLOR_BIT THEN "color_surface" ELSE "fatal"
      [] aspect_mask = VK_IMAGE_ASPECT_DEPTH_BIT ->
             IF HasBit(img.aspects, VK_IMAGE_ASPECT_DEPTH_BIT) THEN "depth_surface" ELSE "fatal"
      [] aspect_mask = VK_IMAGE_ASPECT_STENCIL_BIT ->
             IF HasBit(img.aspects, VK_IMAGE_ASPECT_STENCIL_BIT)
             THEN "stencil_surface" ELSE "fatal"
      [] aspect_mask = VK_IMAGE_ASPECT_DEPTH_BIT + VK_IMAGE_ASPECT_STENCIL_BIT ->
             IF HasBit(img.aspects, VK_IMAGE_ASPECT_DEPTH_BIT) THEN "depth_surface"
             ELSE IF img.aspects = VK_IMAGE_ASPECT_STENCIL_BIT THEN "stencil_surface"
             ELSE "fatal"
      [] OTHER -> "fatal"

\* Whether the hardware reads typed storage images of the format.
isl_has_matching_typed_storage_image_format(devinfo, format) ==
    devinfo.gen >= 9 \/ format # "R64G64_SFLOAT"

\* The closest format the hardware reads typed storage images of.
isl_lower_storage_image_format(devinfo, format) ==
    IF devinfo.gen >= 9 THEN format ELSE "R32_UINT"

\* The byte offsets isl_surf_get_image_surf answers for one level and layer.
ImageSurfOffsets == { 0, 64 }

\* The dword of the descriptor that holds the auxiliary address, as
\* isl_surf_fill_state leaves it: nothing without an auxiliary surface, else
\* the address with the enable bit and pitch in its bottom 12 bits.
aux_addr_dw(aux_usage, aux_address) ==
    IF aux_usage = "NONE" THEN { 0 } ELSE { aux_address + low : low \in { 1, 9 } }

\* The ways one call of anv_image_fill_surface_state can end.
FillAsserts(state_inout) == [ end |-> "ASSERT", state |-> state_inout ]
FillFaults(state_inout) == [ end |-> "SIGSEGV", state |-> state_inout ]

\* anv_image_fill_surface_state with  aux_address = image->offset +
\* image->aux_surface.offset  whatever aux_usage is.
storage_lowered_to_raw_write_only_too(dev, view_in, view_usage, flags) ==
    /\ view_usage = "STORAGE"
    /\ ~isl_has_matching_typed_storage_image_format(dev.info, view_in.format)

\* The condition under which anv_image_fill_surface_state writes the raw
\* buffer encoding in place of a surface state.
storage_lowered_to_raw(dev, view_in, view_usage, flags) ==
    /\ view_usage = "STORAGE"
    /\ "STORAGE_WRITE_ONLY" \notin flags
    /\ ~isl_has_matching_typed_storage_image_format(dev.info, view_in.format)

use_shadow_surface_for_uncompressed_view(img, view_in, flags) ==
    /\ img.shadow_surface.isl.size > 0
    /\ ~isl_format_is_compressed(view_in.format)

\* The condition under which anv_image_fill_surface_state describes the shadow
\* surface in place of the surface of the aspect.
use_shadow_surface(img, view_in, flags) ==
    /\ img.shadow_surface.isl.size > 0
    /\ isl_format_is_compressed(view_in.format)
    /\ "TEXTURE_OPTIMAL" \in flags

anv_image_fill_surface_state_aux_always(dev, img, aspect, view_in, view_usage, aux_usage, flags, state_inout) ==
    LET named == anv_image_get_surface_for_aspect_mask(img, aspect)
        into == IF state_inout.state.map = "NULL" THEN "stray" ELSE "filled"
    IN IF named = "fatal" THEN { FillAsserts(state_inout) }
       ELSE
       LET use_shadow == use_shadow_surface(img, view_in, flags)
           surface == IF use_shadow THEN img.shadow_surface ELSE img[named]
           address == img.offset + surface.offset
           aux_address == img.offset + img.aux_surface.offset
           readable_storage == view_usage = "STORAGE" /\ "STORAGE_WRITE_ONLY" \notin flags
           raw == storage_lowered_to_raw(dev, view_in, view_usage, flags)
           format == IF readable_storage /\ ~raw
                     THEN isl_lower_storage_image_format(dev.info, view_in.format)
                     ELSE view_in.format
           uncompressed_view == /\ isl_format_is_compressed(surface.isl.format)
                                /\ ~isl_format_is_compressed(format)
           ends ==
              IF use_shadow /\ ~(/\ isl_format_is_compressed(img[named].isl.format)
                                 /\ img[named].isl.tiling = "LINEAR"
                                 /\ img.shadow_surface.isl.tiling # "LINEAR")
              THEN { FillAsserts(state_inout) }
              ELSE IF readable_storage /\ aux_usage # "NONE"
              THEN { FillAsserts(state_inout) }
              ELSE IF raw
              THEN { [ end |-> "ok",
                       state |-> [ state_inout EXCEPT !.address = address,
                                                      !.aux_address = 0,
                                                      !.descriptor = into,
                                                      !.format = "RAW" ] ] }
              ELSE IF uncompressed_view /\ ~(/\ surface.isl.samples = 1
                                             /\ view_in.levels = 1
                                             /\ view_in.array_len = 1)
              THEN { FillAsserts(state_inout) }
              ELSE IF uncompressed_view /\ dev.info.gen <= 8 /\ surface.isl.tiling # "LINEAR"
              THEN { FillAsserts(state_inout) }
              ELSE IF dev.info.gen >= 8
              THEN { [ end |-> "ok",
                       state |-> [ state_inout EXCEPT !.address = address + offset_B,
                                                      !.aux_address = aux_address,
                                                      !.descriptor = into,
                                                      !.format = format ] ]
                     : offset_B \in IF uncompressed_view THEN ImageSurfOffsets ELSE { 0 } }
              ELSE IF aux_address % 4096 # 0
              THEN { FillAsserts(state_inout) }
              ELSE { IF aux_address # dw - (dw % 4096)
                     THEN FillAsserts(state_inout)
                     ELSE [ end |-> "ok",
                            state |-> [ state_inout EXCEPT !.address = address + offset_B,
                                                           !.aux_address = dw,
                                                           !.descriptor = into,
                                                           !.format = format ] ]
                     : offset_B \in IF uncompressed_view THEN ImageSurfOffsets ELSE { 0 },
                       dw \in aux_addr_dw(aux_usage, aux_address) }
       IN IF state_inout.state.map = "NULL"
          THEN ends \cup { FillFaults(state_inout) }
          ELSE ends

\* anv_image_fill_surface_state: the ways the call can end and the surface
\* state it leaves. A descriptor written through the map of a failed
\* allocation is undefined behaviour: the write faults, or it lands somewhere.
\* The tile offsets of an uncompressed view are zero on a linear surface.
anv_image_fill_surface_state(dev, img, aspect, view_in, view_usage, aux_usage, flags, state_inout) ==
    LET named == anv_image_get_surface_for_aspect_mask(img, aspect)
        into == IF state_inout.state.map = "NULL" THEN "stray" ELSE "filled"
    IN IF named = "fatal" THEN { FillAsserts(state_inout) }
       ELSE
       LET use_shadow == use_shadow_surface(img, view_in, flags)
           surface == IF use_shadow THEN img.shadow_surface ELSE img[named]
           address == img.offset + surface.offset
           aux_address == IF aux_usage = "NONE" THEN 0
                          ELSE img.offset + img.aux_surface.offset
           readable_storage == view_usage = "STORAGE" /\ "STORAGE_WRITE_ONLY" \notin flags
           raw == storage_lowered_to_raw(dev, view_in, view_usage, flags)
           format == IF readable_storage /\ ~raw
                     THEN isl_lower_storage_image_format(dev.info, view_in.format)
                     ELSE view_in.format
           uncompressed_view == /\ isl_format_is_compressed(surface.isl.format)
                                /\ ~isl_format_is_compressed(format)
           ends ==
              IF use_shadow /\ ~(/\ isl_format_is_compressed(img[named].isl.format)
                                 /\ img[named].isl.tiling = "LINEAR"
                                 /\ img.shadow_surface.isl.tiling # "LINEAR")
              THEN { FillAsserts(state_inout) }
              ELSE IF readable_storage /\ aux_usage # "NONE"
              THEN { FillAsserts(state_inout) }
              ELSE IF raw
              THEN { [ end |-> "ok",
                       state |-> [ state_inout EXCEPT !.address = address,
                                                      !.aux_address = 0,
                                                      !.descriptor = into,
                                                      !.format = "RAW" ] ] }
              ELSE IF uncompressed_view /\ ~(/\ surface.isl.samples = 1
                                             /\ view_in.levels = 1
                                             /\ view_in.array_len = 1)
              THEN { FillAsserts(state_inout) }
              ELSE IF uncompressed_view /\ dev.info.gen <= 8 /\ surface.isl.tiling # "LINEAR"
              THEN { FillAsserts(state_inout) }
              ELSE IF dev.info.gen >= 8
              THEN { [ end |-> "ok",
                       state |-> [ state_inout EXCEPT !.address = address + offset_B,
                                                      !.aux_address = aux_address,
                                                      !.descriptor = into,
                                                      !.format = format ] ]
                     : offset_B \in IF uncompressed_view THEN ImageSurfOffsets ELSE { 0 } }
              ELSE IF aux_address % 4096 # 0
              THEN { FillAsserts(state_inout) }
              ELSE { IF aux_address # dw - (dw % 4096)
                     THEN FillAsserts(state_inout)
                     ELSE [ end |-> "ok",
                            state |-> [ state_inout EXCEPT !.address = address + offset_B,
                                                           !.aux_address = dw,
                                                           !.descriptor = into,
                                                           !.format = format ] ]
                     : offset_B \in IF uncompressed_view THEN ImageSurfOffsets ELSE { 0 },
                       dw \in aux_addr_dw(aux_usage, aux_address) }
       IN IF state_inout.state.map = "NULL"
          THEN ends \cup { FillFaults(state_inout) }
          ELSE ends

----------------------------------------------------------------------------
(* Image views: anv_CreateImageView and anv_DestroyImageView *)

\* MAX(n >> levels, 1), and 0 of 0.
anv_minify(n, levels) == IF n = 0 THEN 0 ELSE MAX2(n \div Pow2(levels), 1)

anv_get_layerCount(img, range) ==
    IF range.layerCount = VK_REMAINING_ARRAY_LAYERS
    THEN Wrap(img.array_size - range.baseArrayLayer)
    ELSE range.layerCount

anv_get_levelCount(img, range) ==
    IF range.levelCount = VK_REMAINING_MIP_LEVELS
    THEN Wrap(img.levels - range.baseMipLevel)
    ELSE range.levelCount

\* The swizzle anv_get_format gives the formats of the model.
FormatSwizzle == [ r |-> "RED", g |-> "GREEN", b |-> "BLUE", a |-> "ALPHA" ]

remap_swizzle(swizzle, component, format_swizzle) ==
    LET s == IF swizzle = "IDENTITY" THEN component ELSE swizzle
    IN CASE s = "ZERO" -> "ZERO"
         [] s = "ONE" -> "ONE"
         [] s = "R" -> format_swizzle.r
         [] s = "G" -> format_swizzle.g
         [] s = "B" -> format_swizzle.b
         [] s = "A" -> format_swizzle.a
         [] OTHER -> "UNREACHABLE"

\* The struct anv_image_view that vk_zalloc2 returns.
ZeroView ==
    [ live |-> TRUE, aspect_mask |-> 0, vk_format |-> "UNDEFINED",
      isl |-> [ format |-> "UNSUPPORTED", base_level |-> 0, levels |-> 0,
                base_array_layer |-> 0, array_len |-> 0,
                swizzle |-> [ r |-> "ZERO", g |-> "ZERO", b |-> "ZERO", a |-> "ZERO" ],
                usage |-> {} ],
      extent |-> ZeroExtent,
      optimal_sampler_surface_state |-> ZeroSurfaceState,
      general_sampler_surface_state |-> ZeroSurfaceState,
      storage_surface_state |-> ZeroSurfaceState,
      writeonly_storage_surface_state |-> ZeroSurfaceState ]

SurfaceStateFields ==
    { "optimal_sampler_surface_state", "general_sampler_surface_state",
      "storage_surface_state", "writeonly_storage_surface_state" }

\* The assertions of anv_CreateImageView on the range and the usage of the view.
view_asserts_pass(img, pCreateInfo, view_usage) ==
    LET range == pCreateInfo.subresourceRange
        last == Wrap(range.baseArrayLayer + anv_get_layerCount(img, range) - 1)
    IN /\ range.layerCount > 0
       /\ range.baseMipLevel < img.levels
       /\ BitAnd(view_usage, 255 - img.usage) = 0
       /\ BitAnd(view_usage, VK_IMAGE_USAGE_SAMPLED_BIT + VK_IMAGE_USAGE_STORAGE_BIT
                             + VK_IMAGE_USAGE_COLOR_ATTACHMENT_BIT
                             + VK_IMAGE_USAGE_INPUT_ATTACHMENT_BIT
                             + VK_IMAGE_USAGE_DEPTH_STENCIL_ATTACHMENT_BIT) # 0
       /\ CASE img.type \in { "1D", "2D" } -> last <= img.array_size
            [] img.type = "3D" -> last <= anv_minify(img.extent.depth, range.baseMipLevel)
            [] OTHER -> FALSE

\* One step of anv_CreateImageView on a surface state of the view: allocate
\* its slot, or fill it. A view whose creation has ended stays as it is.
view_alloc(rs, field) ==
    IF rs.end # "ok" THEN rs
    ELSE [ rs EXCEPT !.iview[field].state = alloc_surface_state(rs.slots_left),
                     !.slots_left = IF @ > 0 THEN @ - 1 ELSE 0,
                     !.failed_allocs = IF rs.slots_left > 0 THEN @ ELSE @ + 1 ]

view_fill(dev, img, rs, field, view_usage, aux_usage, flags) ==
    IF rs.end # "ok" THEN { rs }
    ELSE IF aux_usage \notin AuxUsages THEN { [ rs EXCEPT !.end = "ASSERT" ] }
    ELSE { [ rs EXCEPT !.iview[field] = out.state, !.end = out.end ] :
             out \in anv_image_fill_surface_state(dev, img, rs.iview.aspect_mask,
                                                  rs.iview.isl, view_usage, aux_usage,
                                                  flags, rs.iview[field]) }

\* anv_CreateImageView after the view object is allocated: the ways it can
\* end, with the view it built and the number of slot allocations that failed.
anv_CreateImageView(dev, img, pCreateInfo, slots) ==
    LET range == pCreateInfo.subresourceRange
        view_usage == IF pCreateInfo.usage_info.present
                      THEN pCreateInfo.usage_info.usage ELSE img.usage
        start == [ iview |-> ZeroView, end |-> "ok", slots_left |-> slots,
                   failed_allocs |-> 0 ]
    IN IF ~view_asserts_pass(img, pCreateInfo, view_usage)
       THEN { [ start EXCEPT !.end = "ASSERT" ] }
       ELSE
       LET c == pCreateInfo.components
           extent == [ width |-> anv_minify(img.extent.width, range.baseMipLevel),
                       height |-> anv_minify(img.extent.height, range.baseMipLevel),
                       depth |-> anv_minify(img.extent.depth, range.baseMipLevel) ]
           is3D == pCreateInfo.viewType = "3D"
           v0 == [ ZeroView EXCEPT
                     !.aspect_mask = range.aspectMask,
                     !.vk_format = pCreateInfo.format,
                     !.isl = [ format |-> pCreateInfo.format,
                               base_level |-> range.baseMipLevel,
                               levels |-> anv_get_levelCount(img, range),
                               base_array_layer |->
                                   IF is3D THEN 0 ELSE range.baseArrayLayer,
                               array_len |->
                                   IF is3D THEN extent.depth
                                   ELSE anv_get_layerCount(img, range),
                               swizzle |->
                                   [ r |-> remap_swizzle(c.r, "R", FormatSwizzle),
                                     g |-> remap_swizzle(c.g, "G", FormatSwizzle),
                                     b |-> remap_swizzle(c.b, "B", FormatSwizzle),
                                     a |-> remap_swizzle(c.a, "A", FormatSwizzle) ],
                               usage |-> IF pCreateInfo.viewType \in { "CUBE", "CUBE_ARRAY" }
                                         THEN { "CUBE" } ELSE {} ],
                     !.extent = extent ]
           s0 == [ start EXCEPT !.iview = v0 ]
           sampled == \/ HasBit(view_usage, VK_IMAGE_USAGE_SAMPLED_BIT)
                      \/ /\ HasBit(view_usage, VK_IMAGE_USAGE_INPUT_ATTACHMENT_BIT)
                         /\ ~HasBit(v0.aspect_mask, VK_IMAGE_ASPECT_COLOR_BIT)
           general_aux_usage ==
               anv_layout_to_aux_usage(dev.info, img, v0.aspect_mask, "GENERAL")
           optimal_aux_usage ==
               anv_layout_to_aux_usage(dev.info, img, v0.aspect_mask,
                                       "SHADER_READ_ONLY_OPTIMAL")
           s2 == view_alloc(view_alloc(s0, "optimal_sampler_surface_state"),
                            "general_sampler_surface_state")
           afterSampled ==
               IF ~sampled THEN { s0 }
               ELSE IF general_aux_usage \notin AuxUsages THEN { [ s2 EXCEPT !.end = "ASSERT" ] }
               ELSE UNION { view_fill(dev, img, s3, "general_sampler_surface_state",
                                      "TEXTURE", general_aux_usage, {})
                            : s3 \in view_fill(dev, img, s2, "optimal_sampler_surface_state",
                                               "TEXTURE", optimal_aux_usage,
                                               { "TEXTURE_OPTIMAL" }) }
           storage(s) ==
               LET s5 == view_alloc(view_alloc(s, "storage_surface_state"),
                                    "writeonly_storage_surface_state")
               IN UNION { view_fill(dev, img, s6, "writeonly_storage_surface_state",
                                    "STORAGE", "NONE", { "STORAGE_WRITE_ONLY" })
                          : s6 \in view_fill(dev, img, s5, "storage_surface_state",
                                             "STORAGE", "NONE", {}) }
       IN IF HasBit(view_usage, VK_IMAGE_USAGE_STORAGE_BIT)
          THEN UNION { storage(s) : s \in afterSampled }
          ELSE afterSampled

\* The formats a view of the image may ask for: the image's own and, of a
\* block-texel-view-compatible image, an uncompressed one of the block's size.
ViewFormats(ci) ==
    { ci.format } \cup
    IF HasBit(ci.flags, VK_IMAGE_CREATE_BLOCK_TEXEL_VIEW_COMPATIBLE_BIT_KHR)
    THEN { "R16G16B16A16_UINT" } ELSE {}

IdentitySwizzle == [ r |-> "IDENTITY", g |-> "IDENTITY", b |-> "IDENTITY", a |-> "IDENTITY" ]

NoUsageInfo == [ present |-> FALSE, usage |-> 0 ]

\* The VkImageViewCreateInfo values of the model for the image: ranges inside,
\* at the edge of and beyond the levels and layers of the image.
ImageViewCreateInfos(img, ci) ==
    [ viewType : IF img.type = "3D" THEN { "3D" } ELSE { "2D", "CUBE" },
      format : ViewFormats(ci),
      components : { IdentitySwizzle },
      subresourceRange :
          [ aspectMask : { m \in { 1, 2, 4, 6 } : BitAnd(m, 7 - img.aspects) = 0 },
            baseMipLevel : 0..MaxLevels,
            levelCount : { VK_REMAINING_MIP_LEVELS },
            baseArrayLayer : 0..MaxLayers,
            layerCount : { 0, 1, MaxLayers, VK_REMAINING_ARRAY_LAYERS } ],
      usage_info : { NoUsageInfo,
                     [ present |-> TRUE, usage |-> VK_IMAGE_USAGE_TRANSFER_SRC_BIT ] } ]

\* The views of the whole image.
WholeImageViewCreateInfos(img, ci) ==
    { r \in ImageViewCreateInfos(img, ci) :
        /\ r.viewType # "CUBE" /\ r.format = ci.format /\ r.usage_info = NoUsageInfo
        /\ r.subresourceRange.baseMipLevel = 0 /\ r.subresourceRange.baseArrayLayer = 0
        /\ r.subresourceRange.layerCount = VK_REMAINING_ARRAY_LAYERS }

\* The surface-state slots the pool may have left when a view is created:
\* none, enough for the sampler states only, enough for all four.
PoolSlotsLeft == { 0, 2, 4 }

\* The surface states of the view that hold a slot of the pool.
AllocatedStates(view) == { f \in SurfaceStateFields : view[f].state.alloc_size > 0 }

\* anv_CreateImageView: the allocation of the view object fails before the
\* request is read, or the view is built. The model keeps one view of the
\* image at a time.
CreateImageViewFrom(requests, slots_left) ==
    /\ pc = "done"
    /\ iview = NoView
    /\ \/ /\ call' = [ op |-> "anv_CreateImageView",
                       result |-> "VK_ERROR_OUT_OF_HOST_MEMORY", pView |-> "unwritten",
                       host_alloc_failed |-> TRUE, failed_allocs |-> 0 ]
          /\ UNCHANGED << pc, iview, device >>
       \/ \E pCreateInfo \in requests, slots \in slots_left :
             \E rs \in anv_CreateImageView(device, image, pCreateInfo, slots) :
                /\ call' = [ op |-> "anv_CreateImageView", args |-> pCreateInfo,
                             result |-> IF rs.end = "ok" THEN "VK_SUCCESS" ELSE rs.end,
                             pView |-> IF rs.end = "ok" THEN "iview" ELSE "unwritten",
                             host_alloc_failed |-> FALSE,
                             failed_allocs |-> rs.failed_allocs ]
                /\ iview' = IF rs.end = "ok" THEN rs.iview ELSE NoView
                /\ pc' = IF rs.end = "ok" THEN pc ELSE "abort"
                /\ device' = IF rs.end = "ok"
                              THEN [ device EXCEPT !.surface_state_pool.allocated =
                                        @ + Cardinality(AllocatedStates(rs.iview)) ]
                              ELSE device
    /\ UNCHANGED << INTEL_DEBUG, create_info, image, b, placed, pscreen >>

CreateImageView ==
    CreateImageViewFrom(ImageViewCreateInfos(image, create_info), PoolSlotsLeft)

\* anv_DestroyImageView that frees the four surface states whatever their
\* alloc_size is.
anv_DestroyImageView_frees_all(view) == SurfaceStateFields

\* The surface states of the view whose slot anv_DestroyImageView hands to
\* anv_state_pool_free.
anv_DestroyImageView(view) ==
    { f \in SurfaceStateFields : view[f].state.alloc_size > 0 }

\* anv_DestroyImageView, of the live view or of VK_NULL_HANDLE.
DestroyImageView ==
    /\ pc = "done"
    /\ \E imageView \in { "NULL", "iview" } :
          IF imageView = "NULL"
          THEN /\ call' = [ op |-> "anv_DestroyImageView", args |-> imageView, freed |-> 0 ]
               /\ UNCHANGED << iview, device >>
          ELSE /\ iview # NoView
               /\ call' = [ op |-> "anv_DestroyImageView", args |-> imageView,
                            freed |-> Cardinality(anv_DestroyImageView(iview)) ]
               /\ device' = [ device EXCEPT !.surface_state_pool.allocated =
                                 @ - Cardinality(anv_DestroyImageView(iview)) ]
               /\ iview' = NoView
    /\ UNCHANGED << INTEL_DEBUG, create_info, image, pc, b, placed, pscreen >>

\* The view of the whole image that the command-buffer code hands to
\* anv_image_fill_surface_state.
WholeImageView(img) ==
    [ format |-> img.vk_format, base_level |-> 0, levels |-> img.levels,
      base_array_layer |-> 0, array_len |-> img.array_size,
      swizzle |-> FormatSwizzle, usage |-> {} ]

\* The usage and flags anv_image_fill_surface_state is called with.
FillUses ==
    { << "TEXTURE", {} >>, << "TEXTURE", { "TEXTURE_OPTIMAL" } >>,
      << "RENDER_TARGET", {} >>, << "STORAGE", {} >>,
      << "STORAGE", { "STORAGE_WRITE_ONLY" } >> }

\* A call of anv_image_fill_surface_state on a freshly allocated surface state.
FillSurfaceStateWith(aux_usages) ==
    /\ pc = "done"
    /\ \E aspect \in { 1, 2, 4 }, use \in FillUses,
          aux_usage \in { "NONE", image.aux_usage } \cup aux_usages :
          \E out \in anv_image_fill_surface_state(
                        device, image, aspect, WholeImageView(image), use[1], aux_usage,
                        use[2], [ ZeroSurfaceState EXCEPT !.state = PoolSlot ]) :
             /\ call' = [ op |-> "anv_image_fill_surface_state",
                          args |-> [ aspect |-> aspect, view_usage |-> use[1],
                                     aux_usage |-> aux_usage, flags |-> use[2] ],
                          result |-> out.end, state_inout |-> out.state ]
             /\ pc' = IF out.end = "ok" THEN pc ELSE "abort"
    /\ UNCHANGED << device, INTEL_DEBUG, create_info, image, b, placed, iview, pscreen >>

\* The call with the auxiliary usage of the image or with none.
FillSurfaceState == FillSurfaceStateWith({})

\* The call with any auxiliary usage.
FillSurfaceStateAnyAux == FillSurfaceStateWith(AuxUsages)

\* A call of anv_layout_to_aux_usage at any point of the life of the image.
ResolveAuxUsage(masks, layouts) ==
    /\ pc = "done"
    /\ \E aspects \in masks, layout \in layouts :
          call' = [ op |-> "anv_layout_to_aux_usage", aspects |-> aspects, layout |-> layout,
                    result |-> anv_layout_to_aux_usage(device.info, image, aspects, layout) ]
    /\ UNCHANGED << device, INTEL_DEBUG, create_info, image, pc, b, placed, iview, pscreen >>

\* The images that views are made of: single-sampled, sampled, tiled; colour
\* images with all the levels and layers, depth/stencil images with one.
Image3DCreateInfos ==
    { [ ci EXCEPT !.imageType = "3D", !.extent = [ Extent2D EXCEPT !.depth = MaxDepth ] ] :
        ci \in { c \in ColorCreateInfos : c.arrayLayers = 1 /\ c.flags = 0
                                          /\ c.format = "R8G8B8A8_UNORM"
                                          /\ c.usage = VK_IMAGE_USAGE_SAMPLED_BIT } }

ViewedCreateInfos ==
    { ci \in CreateInfos \cup Image3DCreateInfos :
        /\ ci.samples = 1 /\ ci.tiling = "OPTIMAL" /\ ci.view_formats = NoFormatList
        /\ ci.mipLevels = IF vk_format_aspects(ci.format) = VK_IMAGE_ASPECT_COLOR_BIT
                          THEN MaxLevels ELSE 1
        /\ ci.imageType = "2D" =>
              ci.arrayLayers = IF vk_format_aspects(ci.format) = VK_IMAGE_ASPECT_COLOR_BIT
                               THEN MaxLayers ELSE 1
        /\ ci.format # "B10G11R11_UFLOAT_PACK32"
        /\ ci.flags # VK_IMAGE_CREATE_MUTABLE_FORMAT_BIT
        /\ ci.usage \in { VK_IMAGE_USAGE_SAMPLED_BIT,
                          VK_IMAGE_USAGE_SAMPLED_BIT + VK_IMAGE_USAGE_STORAGE_BIT,
                          VK_IMAGE_USAGE_SAMPLED_BIT
                          + VK_IMAGE_USAGE_DEPTH_STENCIL_ATTACHMENT_BIT } }

InitView ==
    /\ InitWith("tile")
    /\ INTEL_DEBUG = {}

NextView ==
    \/ ImageCreateFrom(ViewedCreateInfos)
    \/ MakeSurfaceStep
    \/ BindImageMemory
    \/ CreateImageView
    \/ DestroyImageView

\* Views of a bound or unbound image, over ranges inside and beyond the image.
SpecView == InitView /\ [][NextView]_vars

NextLife ==
    \/ ImageCreateFrom(ViewedCreateInfos)
    \/ MakeSurfaceStep
    \/ BindImageMemory
    \/ BindImageMemory2KHR
    \/ ResolveAuxUsage(AcceptedAspects(image), { "GENERAL", "SHADER_READ_ONLY_OPTIMAL" })
    \/ FillSurfaceState
    \/ GetImageSubresourceLayout
    \/ CreateImageViewFrom(WholeImageViewCreateInfos(image, create_info), { 0, 4 })
    \/ DestroyImageView

\* Images whose usage has every bit anv_CreateImageView looks at.
PooledCreateInfos ==
    { [ ci EXCEPT !.usage =
          IF vk_format_aspects(ci.format) = VK_IMAGE_ASPECT_COLOR_BIT
          THEN VK_IMAGE_USAGE_SAMPLED_BIT + VK_IMAGE_USAGE_STORAGE_BIT
               + VK_IMAGE_USAGE_INPUT_ATTACHMENT_BIT
          ELSE VK_IMAGE_USAGE_SAMPLED_BIT + VK_IMAGE_USAGE_INPUT_ATTACHMENT_BIT
               + VK_IMAGE_USAGE_DEPTH_STENCIL_ATTACHMENT_BIT ] :
        ci \in { c \in ViewedCreateInfos :
                   /\ c.imageType = "2D" /\ c.usage = VK_IMAGE_USAGE_SAMPLED_BIT
                   /\ ~isl_format_is_compressed(c.format) } }

\* The usages a VkImageViewUsageCreateInfoKHR may narrow the view to.
ViewUsageInfos ==
    { NoUsageInfo } \cup
    { [ present |-> TRUE, usage |-> u ] :
        u \in { VK_IMAGE_USAGE_SAMPLED_BIT, VK_IMAGE_USAGE_STORAGE_BIT,
                VK_IMAGE_USAGE_INPUT_ATTACHMENT_BIT,
                VK_IMAGE_USAGE_INPUT_ATTACHMENT_BIT + VK_IMAGE_USAGE_STORAGE_BIT,
                VK_IMAGE_USAGE_DEPTH_STENCIL_ATTACHMENT_BIT,
                VK_IMAGE_USAGE_TRANSFER_SRC_BIT } }

\* Views of the whole image with every usage.
UsageViewCreateInfos(img, ci) ==
    { [ r EXCEPT !.usage_info = u ] :
        r \in WholeImageViewCreateInfos(img, ci), u \in ViewUsageInfos }

NextPool ==
    \/ ImageCreateFrom(PooledCreateInfos)
    \/ MakeSurfaceStep
    \/ CreateImageViewFrom(UsageViewCreateInfos(image, create_info), PoolSlotsLeft)
    \/ DestroyImageView

\* Views created and destroyed one after the other, with every usage, while
\* the surface-state pool has all, some or none of the slots they ask for.
SpecPool == InitView /\ [][NextPool]_vars

NextFill ==
    \/ ImageCreateFrom(ViewedCreateInfos)
    \/ MakeSurfaceStep
    \/ BindImageMemory
    \/ FillSurfaceStateAnyAux
    \/ CreateImageViewFrom(WholeImageViewCreateInfos(image, create_info), { 4 })
    \/ DestroyImageView

\* Surface states of a finished image filled by any caller and by
\* anv_CreateImageView.
SpecFill == InitView /\ [][NextFill]_vars

\* The life of an image after its creation: every entry point that is
\* called on a finished image, in any order, with views of the whole image.
SpecLife == InitView /\ [][NextLife]_vars


----------------------------------------------------------------------------
(* Panfrost performance counters: pan_perfcnt.c *)

\* The blocks of the GPU, by index, with their names.
block_names == << "SHADER", "TILER", "MMU_L2", "JM" >>

PANFROST_NUM_BLOCKS == Len(block_names)

PANFROST_SHADER_BLOCK == PANFROST_NUM_BLOCKS - 4

PANFROST_TILER_BLOCK == PANFROST_NUM_BLOCKS - 3

PANFROST_MMU_L2_BLOCK == PANFROST_NUM_BLOCKS - 2

PANFROST_JM_BLOCK == PANFROST_NUM_BLOCKS - 1

Blocks == 0..(PANFROST_NUM_BLOCKS - 1)

\* struct panfrost_counters of the T86x: the counters of each block, in the
\* order of the initialiser.
t86x_counters ==
    [ i \in Blocks |->
        CASE i = PANFROST_JM_BLOCK ->
          << [ id |-> 4, name |-> "MESSAGES_SENT" ],
             [ id |-> 5, name |-> "MESSAGES_RECEIVED" ],
             [ id |-> 6, name |-> "GPU_ACTIVE" ],
             [ id |-> 7, name |-> "IRQ_ACTIVE" ],
             [ id |-> 8, name |-> "JS0_JOBS" ],
             [ id |-> 9, name |-> "JS0_TASKS" ],
             [ id |-> 10, name |-> "JS0_ACTIVE" ],
             [ id |-> 12, name |-> "JS0_WAIT_READ" ],
             [ id |-> 13, name |-> "JS0_WAIT_ISSUE" ],
             [ id |-> 14, name |-> "JS0_WAIT_DEPEND" ],
             [ id |-> 15, name |-> "JS0_WAIT_FINISH" ],
             [ id |-> 16, name |-> "JS1_JOBS" ],
             [ id |-> 17, name |-> "JS1_TASKS" ],
             [ id |-> 18, name |-> "JS1_ACTIVE" ],
             [ id |-> 20, name |-> "JS1_WAIT_READ" ],
             [ id |-> 21, name |-> "JS1_WAIT_ISSUE" ],
             [ id |-> 22, name |-> "JS1_WAIT_DEPEND" ],
             [ id |-> 23, name |-> "JS1_WAIT_FINISH" ],
             [ id |-> 24, name |-> "JS2_JOBS" ],
             [ id |-> 25, name |-> "JS2_TASKS" ],
             [ id |-> 26, name |-> "JS2_ACTIVE" ],
             [ id |-> 28, name |-> "JS2_WAIT_READ" ],
             [ id |-> 29, name |-> "JS2_WAIT_ISSUE" ],
             [ id |-> 30, name |-> "JS2_WAIT_DEPEND" ],
             [ id |-> 31, name |-> "JS2_WAIT_FINISH" ] >>
          [] i = PANFROST_TILER_BLOCK ->
          << [ id |-> 3, name |-> "TI_JOBS_PROCESSED" ],
             [ id |-> 4, name |-> "TI_TRIANGLES" ],
             [ id |-> 5, name |-> "TI_QUADS" ],
             [ id |-> 6, name |-> "TI_POLYGONS" ],
             [ id |-> 7, name |-> "TI_POINTS" ],
             [ id |-> 8, name |-> "TI_LINES" ],
             [ id |-> 9, name |-> "TI_VCACHE_HIT" ],
             [ id |-> 10, name |-> "TI_VCACHE_MISS" ],
             [ id |-> 11, name |-> "TI_FRONT_FACING" ],
             [ id |-> 12, name |-> "TI_BACK_FACING" ],
             [ id |-> 13, name |-> "TI_PRIM_VISIBLE" ],
             [ id |-> 14, name |-> "TI_PRIM_CULLED" ],
             [ id |-> 15, name |-> "TI_PRIM_CLIPPED" ],
             [ id |-> 16, name |-> "TI_LEVEL0" ],
             [ id |-> 17, name |-> "TI_LEVEL1" ],
             [ id |-> 18, name |-> "TI_LEVEL2" ],
             [ id |-> 19, name |-> "TI_LEVEL3" ],
             [ id |-> 20, name |-> "TI_LEVEL4" ],
             [ id |-> 21, name |-> "TI_LEVEL5" ],
             [ id |-> 22, name |-> "TI_LEVEL6" ],
             [ id |-> 23, name |-> "TI_LEVEL7" ],
             [ id |-> 24, name |-> "TI_COMMAND_1" ],
             [ id |-> 25, name |-> "TI_COMMAND_2" ],
             [ id |-> 26, name |-> "TI_COMMAND_3" ],
             [ id |-> 27, name |-> "TI_COMMAND_4" ],
             [ id |-> 28, name |-> "TI_COMMAND_5_7" ],
             [ id |-> 29, name |-> "TI_COMMAND_8_15" ],
             [ id |-> 30, name |-> "TI_COMMAND_16_63" ],
             [ id |-> 31, name |-> "TI_COMMAND_64" ],
             [ id |-> 32, name |-> "TI_COMPRESS_IN" ],
             [ id |-> 33, name |-> "TI_COMPRESS_OUT" ],
             [ id |-> 34, name |-> "TI_COMPRESS_FLUSH" ],
             [ id |-> 35, name |-> "TI_TIMESTAMPS" ],
             [ id |-> 36, name |-> "TI_PCACHE_HIT" ],
             [ id |-> 37, name |-> "TI_PCACHE_MISS" ],
             [ id |-> 38, name |-> "TI_PCACHE_LINE" ],
             [ id |-> 39, name |-> "TI_PCACHE_STALL" ],
             [ id |-> 40, name |-> "TI_WRBUF_HIT" ],
             [ id |-> 41, name |-> "TI_WRBUF_MISS" ],
             [ id |-> 42, name |-> "TI_WRBUF_LINE" ],
             [ id |-> 43, name |-> "TI_WRBUF_PARTIAL" ],
             [ id |-> 44, name |-> "TI_WRBUF_STALL" ],
             [ id |-> 45, name |-> "TI_ACTIVE" ],
             [ id |-> 46, name |-> "TI_LOADING_DESC" ],
             [ id |-> 47, name |-> "TI_INDEX_WAIT" ],
             [ id |-> 48, name |-> "TI_INDEX_RANGE_WAIT" ],
             [ id |-> 49, name |-> "TI_VERTEX_WAIT" ],
             [ id |-> 50, name |-> "TI_PCACHE_WAIT" ],
             [ id |-> 51, name |-> "TI_WRBUF_WAIT" ],
             [ id |-> 52, name |-> "TI_BUS_READ" ],
             [ id |-> 53, name |-> "TI_BUS_WRITE" ],
             [ id |-> 59, name |-> "TI_UTLB_HIT" ],
             [ id |-> 60, name |-> "TI_UTLB_NEW_MISS" ],
             [ id |-> 61, name |-> "TI_UTLB_REPLAY_FULL" ],
             [ id |-> 62, name |-> "TI_UTLB_REPLAY_MISS" ],
             [ id |-> 63, name |-> "TI_UTLB_STALL" ] >>
          [] i = PANFROST_SHADER_BLOCK ->
          << [ id |-> 4, name |-> "FRAG_ACTIVE" ],
             [ id |-> 5, name |-> "FRAG_PRIMITIVES" ],
             [ id |-> 6, name |-> "FRAG_PRIMITIVES_DROPPED" ],
             [ id |-> 7, name |-> "FRAG_CYCLES_DESC" ],
             [ id |-> 8, name |-> "FRAG_CYCLES_FPKQ_ACTIVE" ],
             [ id |-> 9, name |-> "FRAG_CYCLES_VERT" ],
             [ id |-> 10, name |-> "FRAG_CYCLES_TRISETUP" ],
             [ id |-> 11, name |-> "FRAG_CYCLES_EZS_ACTIVE" ],
             [ id |-> 12, name |-> "FRAG_THREADS" ],
             [ id |-> 13, name |-> "FRAG_DUMMY_THREADS" ],
             [ id |-> 14, name |-> "FRAG_QUADS_RAST" ],
             [ id |-> 15, name |-> "FRAG_QUADS_EZS_TEST" ],
             [ id |-> 16, name |-> "FRAG_QUADS_EZS_KILLED" ],
             [ id |-> 17, name |-> "FRAG_THREADS_LZS_TEST" ],
             [ id |-> 18, name |-> "FRAG_THREADS_LZS_KILLED" ],
             [ id |-> 19, name |-> "FRAG_CYCLES_NO_TILE" ],
             [ id |-> 20, name |-> "FRAG_NUM_TILES" ],
             [ id |-> 21, name |-> "FRAG_TRANS_ELIM" ],
             [ id |-> 22, name |-> "COMPUTE_ACTIVE" ],
             [ id |-> 23, name |-> "COMPUTE_TASKS" ],
             [ id |-> 24, name |-> "COMPUTE_THREADS" ],
             [ id |-> 25, name |-> "COMPUTE_CYCLES_DESC" ],
             [ id |-> 26, name |-> "TRIPIPE_ACTIVE" ],
             [ id |-> 27, name |-> "ARITH_WORDS" ],
             [ id |-> 28, name |-> "ARITH_CYCLES_REG" ],
             [ id |-> 29, name |-> "ARITH_CYCLES_L0" ],
             [ id |-> 30, name |-> "ARITH_FRAG_DEPEND" ],
             [ id |-> 31, name |-> "LS_WORDS" ],
             [ id |-> 32, name |-> "LS_ISSUES" ],
             [ id |-> 33, name |-> "LS_REISSUE_ATTR" ],
             [ id |-> 34, name |-> "LS_REISSUES_VARY" ],
             [ id |-> 35, name |-> "LS_VARY_RV_MISS" ],
             [ id |-> 36, name |-> "LS_VARY_RV_HIT" ],
             [ id |-> 37, name |-> "LS_NO_UNPARK" ],
             [ id |-> 38, name |-> "TEX_WORDS" ],
             [ id |-> 39, name |-> "TEX_BUBBLES" ],
             [ id |-> 40, name |-> "TEX_WORDS_L0" ],
             [ id |-> 41, name |-> "TEX_WORDS_DESC" ],
             [ id |-> 42, name |-> "TEX_ISSUES" ],
             [ id |-> 43, name |-> "TEX_RECIRC_FMISS" ],
             [ id |-> 44, name |-> "TEX_RECIRC_DESC" ],
             [ id |-> 45, name |-> "TEX_RECIRC_MULTI" ],
             [ id |-> 46, name |-> "TEX_RECIRC_PMISS" ],
             [ id |-> 47, name |-> "TEX_RECIRC_CONF" ],
             [ id |-> 48, name |-> "LSC_READ_HITS" ],
             [ id |-> 49, name |-> "LSC_READ_OP" ],
             [ id |-> 50, name |-> "LSC_WRITE_HITS" ],
             [ id |-> 51, name |-> "LSC_WRITE_OP" ],
             [ id |-> 52, name |-> "LSC_ATOMIC_HITS" ],
             [ id |-> 53, name |-> "LSC_ATOMIC_OP" ],
             [ id |-> 54, name |-> "LSC_LINE_FETCHES" ],
             [ id |-> 55, name |-> "LSC_DIRTY_LINE" ],
             [ id |-> 56, name |-> "LSC_SNOOPS" ],
             [ id |-> 57, name |-> "AXI_TLB_STALL" ],
             [ id |-> 58, name |-> "AXI_TLB_MISS" ],
             [ id |-> 59, name |-> "AXI_TLB_TRANSACTION" ],
             [ id |-> 60, name |-> "LS_TLB_MISS" ],
             [ id |-> 61, name |-> "LS_TLB_HIT" ],
             [ id |-> 62, name |-> "AXI_BEATS_READ" ],
             [ id |-> 63, name |-> "AXI_BEATS_WRITTEN" ] >>
          [] i = PANFROST_MMU_L2_BLOCK ->
          << [ id |-> 4, name |-> "MMU_HIT" ],
             [ id |-> 5, name |-> "MMU_NEW_MISS" ],
             [ id |-> 6, name |-> "MMU_REPLAY_FULL" ],
             [ id |-> 7, name |-> "MMU_REPLAY_MISS" ],
             [ id |-> 8, name |-> "MMU_TABLE_WALK" ],
             [ id |-> 9, name |-> "MMU_REQUESTS" ],
             [ id |-> 12, name |-> "UTLB_HIT" ],
             [ id |-> 13, name |-> "UTLB_NEW_MISS" ],
             [ id |-> 14, name |-> "UTLB_REPLAY_FULL" ],
             [ id |-> 15, name |-> "UTLB_REPLAY_MISS" ],
             [ id |-> 16, name |-> "UTLB_STALL" ],
             [ id |-> 30, name |-> "L2_EXT_WRITE_BEATS" ],
             [ id |-> 31, name |-> "L2_EXT_READ_BEATS" ],
             [ id |-> 32, name |-> "L2_ANY_LOOKUP" ],
             [ id |-> 33, name |-> "L2_READ_LOOKUP" ],
             [ id |-> 34, name |-> "L2_SREAD_LOOKUP" ],
             [ id |-> 35, name |-> "L2_READ_REPLAY" ],
             [ id |-> 36, name |-> "L2_READ_SNOOP" ],
             [ id |-> 37, name |-> "L2_READ_HIT" ],
             [ id |-> 38, name |-> "L2_CLEAN_MISS" ],
             [ id |-> 39, name |-> "L2_WRITE_LOOKUP" ],
             [ id |-> 40, name |-> "L2_SWRITE_LOOKUP" ],
             [ id |-> 41, name |-> "L2_WRITE_REPLAY" ],
             [ id |-> 42, name |-> "L2_WRITE_SNOOP" ],
             [ id |-> 43, name |-> "L2_WRITE_HIT" ],
             [ id |-> 44, name |-> "L2_EXT_READ_FULL" ],
             [ id |-> 46, name |-> "L2_EXT_WRITE_FULL" ],
             [ id |-> 47, name |-> "L2_EXT_R_W_HAZARD" ],
             [ id |-> 48, name |-> "L2_EXT_READ" ],
             [ id |-> 49, name |-> "L2_EXT_READ_LINE" ],
             [ id |-> 50, name |-> "L2_EXT_WRITE" ],
             [ id |-> 51, name |-> "L2_EXT_WRITE_LINE" ],
             [ id |-> 52, name |-> "L2_EXT_WRITE_SMALL" ],
             [ id |-> 53, name |-> "L2_EXT_BARRIER" ],
             [ id |-> 54, name |-> "L2_EXT_AR_STALL" ],
             [ id |-> 55, name |-> "L2_EXT_R_BUF_FULL" ],
             [ id |-> 56, name |-> "L2_EXT_RD_BUF_FULL" ],
             [ id |-> 57, name |-> "L2_EXT_R_RAW" ],
             [ id |-> 58, name |-> "L2_EXT_W_STALL" ],
             [ id |-> 59, name |-> "L2_EXT_W_BUF_FULL" ],
             [ id |-> 60, name |-> "L2_EXT_R_BUF_FULL" ],
             [ id |-> 61, name |-> "L2_TAG_HAZARD" ],
             [ id |-> 62, name |-> "L2_SNOOP_FULL" ],
             [ id |-> 63, name |-> "L2_REPLAY_FULL" ] >> ]

\* The table of supported GPUs.
gpus == << [ gpu_id |-> "0x860", counters |-> "t86x_counters" ] >>

\* What a pointer to a struct panfrost_counters points at.
CountersAt(counters) == IF counters = "t86x_counters" THEN t86x_counters ELSE << >>

GpuIds == { gpus[i].gpu_id : i \in 1..Len(gpus) } \cup { "0x750" }

\* The bits of perfcnt_info.instances[i] that the driver's init_perfcnt
\* may set: no instance of the block, the first, or two further ones.
InstanceMasks == { {}, { 0 }, { 1, 63 } }

NoInstances == [ i \in Blocks |-> {} ]

\* The number of block instances of the GPU.
RECURSIVE InstancesPresent(_, _)
InstancesPresent(instances, blocks) ==
    IF blocks = {} THEN 0
    ELSE LET i == CHOOSE x \in blocks : TRUE
         IN Cardinality(instances[i]) + InstancesPresent(instances, blocks \ { i })

\* driver->init_perfcnt == NULL.
NoCallback == [ present |-> FALSE ]

\* struct panfrost_screen after the screen is allocated (zeroed) and its
\* driver chosen. init_perfcnt is the driver callback: none, or the
\* instance masks it stores.
NewScreens ==
    { [ state |-> "new", gpu_id |-> g, init_perfcnt |-> cb,
        perfcnt_info |-> [ counters |-> "NULL", instances |-> NoInstances,
                           nqueries |-> 0, queries |-> << >> ],
        get_driver_query_info |-> "NULL" ] :
        g \in GpuIds,
        cb \in { NoCallback } \cup
               { [ present |-> TRUE, instances |-> m ] :
                   m \in { x \in [ Blocks -> InstanceMasks ] :
                             InstancesPresent(x, Blocks) <= MaxInstances } } }

\* The next j >= from with (1ULL << j) & instances, or 64: the next turn of
\* the j loop that does not take  continue.
perfcnt_next_instance(instances, from) ==
    IF \E j \in instances : j >= from /\ j < 64
    THEN CHOOSE j \in instances : j >= from /\ j < 64 /\ \A h \in instances : h >= from => j <= h
    ELSE 64

\* The first loop of panfrost_perfcnt_init_queries, from block i and
\* instance j on.
RECURSIVE perfcnt_count_queries(_, _, _, _)
perfcnt_count_queries(perfcnt_info, i, j, nqueries) ==
    IF i = PANFROST_NUM_BLOCKS THEN nqueries
    ELSE LET next == perfcnt_next_instance(perfcnt_info.instances[i], j)
         IN IF next = 64 THEN perfcnt_count_queries(perfcnt_info, i + 1, 0, nqueries)
            ELSE perfcnt_count_queries(perfcnt_info, i, next + 1,
                    nqueries + Len(CountersAt(perfcnt_info.counters)[i]))

ZeroQuery == [ name |-> "NULL", block |-> 0, instance |-> 0, counter |-> 0 ]

\* The k loop over the counters of block i for instance j: the entries from
\* qinfo on are written, one for each counter.
perfcnt_fill_counters(counters, i, j, queries, qinfo) ==
    LET ncounters == Len(CountersAt(counters)[i])
    IN [ queries |->
           [ p \in DOMAIN queries |->
               IF p > qinfo /\ p <= qinfo + ncounters
               THEN LET k == p - qinfo - 1
                    IN [ name |-> << CountersAt(counters)[i][k + 1].name,
                                    block_names[i + 1], j >>,
                         block |-> i, instance |-> j, counter |-> k ]
               ELSE queries[p] ],
         qinfo |-> qinfo + ncounters ]

\* The second loop of panfrost_perfcnt_init_queries, from block i and
\* instance j on.
RECURSIVE perfcnt_fill_queries(_, _, _, _, _)
perfcnt_fill_queries(perfcnt_info, i, j, queries, qinfo) ==
    IF i = PANFROST_NUM_BLOCKS THEN queries
    ELSE LET next == perfcnt_next_instance(perfcnt_info.instances[i], j)
         IN IF next = 64 THEN perfcnt_fill_queries(perfcnt_info, i + 1, 0, queries, qinfo)
            ELSE LET filled == perfcnt_fill_counters(perfcnt_info.counters, i, next,
                                                     queries, qinfo)
                 IN perfcnt_fill_queries(perfcnt_info, i, next + 1,
                                         filled.queries, filled.qinfo)

\* panfrost_perfcnt_init_queries that counts a block once, whatever the
\* number of its instances.
panfrost_perfcnt_init_queries_once_per_block(perfcnt_info, calloc_ok) ==
    LET present == { i \in Blocks : perfcnt_info.instances[i] # {} }
        first == [ i \in Blocks |->
                     IF i \in present
                     THEN { CHOOSE j \in perfcnt_info.instances[i] :
                              \A h \in perfcnt_info.instances[i] : j <= h }
                     ELSE {} ]
        once == [ perfcnt_info EXCEPT !.instances = first ]
        nqueries == perfcnt_count_queries(once, 0, 0, perfcnt_info.nqueries)
    IN IF nqueries = 0 THEN [ end |-> "ok", perfcnt_info |-> perfcnt_info ]
       ELSE IF ~calloc_ok THEN [ end |-> "ASSERT", perfcnt_info |-> perfcnt_info ]
       ELSE [ end |-> "ok",
              perfcnt_info |->
                 [ perfcnt_info EXCEPT
                     !.nqueries = nqueries,
                     !.queries = perfcnt_fill_queries(once, 0, 0,
                                    [ q \in 1..nqueries |-> ZeroQuery ], 0) ] ]

\* panfrost_perfcnt_init_queries: the count, the allocation of the table
\* (calloc_ok tells whether CALLOC returns memory) and its filling.
panfrost_perfcnt_init_queries(perfcnt_info, calloc_ok) ==
    LET nqueries == perfcnt_count_queries(perfcnt_info, 0, 0, perfcnt_info.nqueries)
    IN IF nqueries = 0 THEN [ end |-> "ok", perfcnt_info |-> perfcnt_info ]
       ELSE IF ~calloc_ok THEN [ end |-> "ASSERT", perfcnt_info |-> perfcnt_info ]
       ELSE [ end |-> "ok",
              perfcnt_info |->
                 [ perfcnt_info EXCEPT
                     !.nqueries = nqueries,
                     !.queries = perfcnt_fill_queries(perfcnt_info, 0, 0,
                                    [ q \in 1..nqueries |-> ZeroQuery ], 0) ] ]

\* info == NULL.
NullQueryInfo == [ null |-> TRUE ]

\* struct pipe_driver_query_info as the caller hands it in.
CallerQueryInfo ==
    [ null |-> FALSE, name |-> "caller", query_type |-> "caller", type |-> "caller",
      result_type |-> "caller", group_id |-> "caller", flags |-> "caller" ]

\* panfrost_get_query_info: the value returned and *info after the call.
panfrost_get_query_info(screen, index, info) ==
    IF info = NullQueryInfo THEN [ return |-> screen.perfcnt_info.nqueries, info |-> info ]
    ELSE IF index >= screen.perfcnt_info.nqueries THEN [ return |-> 0, info |-> info ]
    ELSE LET qinfo == screen.perfcnt_info.queries[index + 1]
         IN [ return |-> 1,
              info |-> [ info EXCEPT
                           !.group_id = 0,
                           !.flags = "PIPE_DRIVER_QUERY_FLAG_BATCH",
                           !.type = "PIPE_DRIVER_QUERY_TYPE_UINT64",
                           !.result_type = "PIPE_DRIVER_QUERY_RESULT_TYPE_CUMULATIVE",
                           !.query_type = << "PIPE_QUERY_DRIVER_SPECIFIC", index >>,
                           !.name = qinfo.name ] ]

\* The entry of gpus for the GPU, or none.
perfcnt_find_gpu(gpu_id) ==
    { i \in 1..Len(gpus) : gpus[i].gpu_id = gpu_id }

\* panfrost_perfcnt_init on a new screen.
PerfcntInit ==
    /\ pscreen.state = "new"
    /\ IF perfcnt_find_gpu(pscreen.gpu_id) = {}
       THEN pscreen' = [ pscreen EXCEPT !.state = "unsupported" ]
       ELSE \E i \in perfcnt_find_gpu(pscreen.gpu_id), calloc_ok \in BOOLEAN :
               LET found == [ pscreen.perfcnt_info EXCEPT
                                !.counters = gpus[i].counters,
                                !.instances = IF pscreen.init_perfcnt = NoCallback THEN @
                                              ELSE pscreen.init_perfcnt.instances ]
                   out == panfrost_perfcnt_init_queries(found, calloc_ok)
               IN pscreen' =
                     IF out.end = "ok"
                     THEN [ pscreen EXCEPT
                              !.state = "ready",
                              !.perfcnt_info = out.perfcnt_info,
                              !.get_driver_query_info = "panfrost_get_query_info" ]
                     ELSE [ pscreen EXCEPT !.state = "abort", !.perfcnt_info = found ]
    /\ call' = [ op |-> "panfrost_perfcnt_init" ]
    /\ UNCHANGED << device, INTEL_DEBUG, create_info, image, pc, b, placed, iview >>

\* The indexes a caller asks for: those of the table and a few beyond.
QueryIndexes == 0..(pscreen.perfcnt_info.nqueries + 2)

\* A call of the get_driver_query_info hook of the screen.
GetDriverQueryInfo ==
    /\ pscreen.state = "ready"
    /\ pscreen.get_driver_query_info = "panfrost_get_query_info"
    /\ \E index \in QueryIndexes, info \in { NullQueryInfo, CallerQueryInfo } :
          call' = [ op |-> "panfrost_get_query_info", index |-> index, info_in |-> info,
                    out |-> panfrost_get_query_info(pscreen, index, info) ]
    /\ UNCHANGED << device, INTEL_DEBUG, create_info, image, pc, b, placed, iview, pscreen >>

InitPerfcnt ==
    /\ device = CHOOSE d \in Devices("tile") : d.info.gen = 7
    /\ INTEL_DEBUG = {}
    /\ create_info = NoCreateInfo
    /\ image = ZeroImage
    /\ pc = "start"
    /\ b = 0
    /\ placed = << >>
    /\ call = NoCall
    /\ iview = NoView
    /\ pscreen \in NewScreens

NextPerfcnt ==
    \/ PerfcntInit
    \/ GetDriverQueryInfo

\* The performance-counter queries of a Panfrost screen: their table is
\* built once, then read through the screen's hook.
SpecPerfcnt == InitPerfcnt /\ [][NextPerfcnt]_vars

----------------------------------------------------------------------------
(* Properties *)

\* The entries of the history that are add_surface calls.
IsSurfaceEntry(e) == e.surf \in SurfaceFields
AddSurfaceCalls == SelectSeq(placed, IsSurfaceEntry)

\* The surfaces of the image that hold bytes.
SizedSurfaces == { f \in SurfaceFields : image[f].isl.size > 0 }
SurfaceEnd(f) == image[f].offset + image[f].isl.size

Building == pc \in { "loop", "done" }
Called == call.op = "anv_layout_to_aux_usage"

RECURSIVE MaxOf(_)
MaxOf(S) ==
    IF S = {} THEN 0
    ELSE LET e == CHOOSE x \in S : TRUE IN MAX2(e, MaxOf(S \ { e }))

\* C1: in every image under construction or finished, the byte ranges of
\* any two distinct surfaces that hold bytes are disjoint, and every
\* add_surface call places its surface at or after the end of the surface
\* placed by the call before it.
C1_PlacementNonOverlap ==
    Building =>
       /\ \A f, g \in SizedSurfaces :
             f # g => (SurfaceEnd(f) <= image[g].offset \/ SurfaceEnd(g) <= image[f].offset)
       /\ \A i \in 1..(Len(AddSurfaceCalls) - 1) :
             AddSurfaceCalls[i + 1].offset >= AddSurfaceCalls[i].offset + AddSurfaceCalls[i].size
       /\ \A i \in 1..Len(AddSurfaceCalls) :
             /\ image[AddSurfaceCalls[i].surf].offset = AddSurfaceCalls[i].offset
             /\ image[AddSurfaceCalls[i].surf].isl.size = AddSurfaceCalls[i].size

\* C1 witness: a finished depth+stencil image with a HiZ surface, three
\* surfaces, with padding in front of the second one.
C1_Witness ==
    /\ pc = "done"
    /\ Cardinality(SizedSurfaces) = 3
    /\ Len(AddSurfaceCalls) = 3
    /\ AddSurfaceCalls[2].offset > AddSurfaceCalls[1].offset + AddSurfaceCalls[1].size

\* C2: every placed surface's offset is a multiple of its own alignment, and
\* the image's alignment is the maximum of the alignments of the surfaces
\* that add_surface placed.
C2_OffsetsAlignedAndMaxAlignment ==
    Building =>
       /\ \A i \in 1..Len(AddSurfaceCalls) :
             LET f == AddSurfaceCalls[i].surf
             IN /\ image[f].isl.alignment = AddSurfaceCalls[i].alignment
                /\ image[f].offset % image[f].isl.alignment = 0
       /\ image.alignment =
             MaxOf({ AddSurfaceCalls[i].alignment : i \in 1..Len(AddSurfaceCalls) })

\* C2 witness: three placed surfaces whose largest alignment is not the
\* last one's, with an offset that had to be rounded up.
C2_Witness ==
    /\ pc = "done"
    /\ Len(AddSurfaceCalls) = 3
    /\ AddSurfaceCalls[2].alignment > AddSurfaceCalls[3].alignment
    /\ AddSurfaceCalls[2].alignment > AddSurfaceCalls[1].alignment
    /\ AddSurfaceCalls[2].offset > AddSurfaceCalls[1].offset + AddSurfaceCalls[1].size
    /\ image.alignment = AddSurfaceCalls[2].alignment

\* A colour image that was granted an auxiliary surface (CCS or MCS).
ColorAuxGranted ==
    /\ pc = "done"
    /\ image.aspects = VK_IMAGE_ASPECT_COLOR_BIT
    /\ image.aux_surface.isl.size > 0

FastClearBlockSize == anv_fast_clear_state_entry_size(device) * anv_image_aux_levels(image)

\* C3: when a colour auxiliary surface is granted, the image ends with the
\* fast-clear block: size = aux offset + aux size + entry_size * aux levels,
\* the block's size is a multiple of 4, and nothing is placed after it.
C3_FastClearBlockLast ==
    ColorAuxGranted =>
       /\ image.size = SurfaceEnd("aux_surface") + FastClearBlockSize
       /\ FastClearBlockSize % 4 = 0
       /\ Len(placed) >= 2
       /\ placed[Len(placed)].surf = "fast_clear_state"
       /\ placed[Len(placed)].offset = SurfaceEnd("aux_surface")
       /\ placed[Len(placed)].size = FastClearBlockSize
       /\ placed[Len(placed) - 1].surf = "aux_surface"
       /\ \A f \in SizedSurfaces : SurfaceEnd(f) <= SurfaceEnd("aux_surface")

\* C3 witness: a CCS surface on an image with two mip levels.
C3_Witness ==
    /\ ColorAuxGranted
    /\ image.samples = 1
    /\ anv_image_aux_levels(image) = 2
    /\ image.size = SurfaceEnd("aux_surface") + 2 * anv_fast_clear_state_entry_size(device)

SingleBitAspects ==
    { VK_IMAGE_ASPECT_COLOR_BIT, VK_IMAGE_ASPECT_DEPTH_BIT, VK_IMAGE_ASPECT_STENCIL_BIT }

\* The call is one with a declared layout and a single-bit aspect of the image.
LegalSingleAspectCall ==
    /\ Called
    /\ call.layout \in VkImageLayouts
    /\ call.aspects \in SingleBitAspects
    /\ HasBit(image.aspects, call.aspects)

\* The calls the depth/stencil switch of the resolver treats as fatal.
FatalDepthStencilCall ==
    /\ image.aux_surface.isl.size > 0
    /\ call.aspects # VK_IMAGE_ASPECT_COLOR_BIT
    /\ ~(device.info.gen < 8 /\ call.aspects = VK_IMAGE_ASPECT_STENCIL_BIT)
    /\ call.layout \in { "COLOR_ATTACHMENT_OPTIMAL", "PRESENT_SRC_KHR", "SHARED_PRESENT_KHR" }

\* C4 as claimed: for every declared layout and every single-bit aspect of
\* the image the resolver returns a mode, never an assertion failure or an
\* unreachable().
C4_ResolverTotal_Original == LegalSingleAspectCall => call.result \in AuxUsages

\* C4 amended: the resolver returns a mode for every declared layout and
\* single-bit aspect of the image, except that on an image with an auxiliary
\* surface a depth or stencil access (not the stencil-only access below gen 8)
\* in COLOR_ATTACHMENT_OPTIMAL, PRESENT_SRC_KHR or SHARED_PRESENT_KHR is fatal.
C4_ResolverTotal_Amended ==
    LegalSingleAspectCall => (call.result \in AuxUsages <=> ~FatalDepthStencilCall)

\* C4 witness: a depth access of a HiZ image in a read-only layout that
\* returns a mode, here HIZ.
C4_Witness ==
    /\ LegalSingleAspectCall
    /\ image.aux_usage = "HIZ"
    /\ call.aspects = VK_IMAGE_ASPECT_DEPTH_BIT
    /\ call.layout = "DEPTH_READ_ONLY_STENCIL_ATTACHMENT_OPTIMAL_KHR"
    /\ call.result = "HIZ"

\* C5: on an image without an auxiliary surface the resolver returns NONE for
\* every aspect mask its validation accepts and every layout value.
C5_NoAuxSurfaceGivesNone ==
    (Called /\ call.aspects \in AcceptedAspects(image) /\ image.aux_surface.isl.size = 0)
       => call.result = "NONE"

\* C5 witness: a depth access in DEPTH_STENCIL_ATTACHMENT_OPTIMAL on gen 9 of
\* an image without an auxiliary surface.
C5_Witness ==
    /\ Called
    /\ image.aux_surface.isl.size = 0
    /\ image.aspects = VK_IMAGE_ASPECT_DEPTH_BIT + VK_IMAGE_ASPECT_STENCIL_BIT
    /\ call.aspects = VK_IMAGE_ASPECT_DEPTH_BIT
    /\ call.layout = "DEPTH_STENCIL_ATTACHMENT_OPTIMAL"
    /\ device.info.gen = 9
    /\ call.result = "NONE"

\* C6: below gen 8 a stencil-only access of an image that has the stencil
\* aspect returns NONE for every layout, with or without an auxiliary surface.
C6_StencilBelowGen8GivesNone ==
    (/\ Called
     /\ device.info.gen < 8
     /\ call.aspects = VK_IMAGE_ASPECT_STENCIL_BIT
     /\ call.aspects \in AcceptedAspects(image)
     /\ call.layout \in VkImageLayouts)
       => call.result = "NONE"

\* C6 witness: gen 7, a depth+stencil image with a HiZ surface, stencil-only
\* access in DEPTH_STENCIL_ATTACHMENT_OPTIMAL.
C6_Witness ==
    /\ Called
    /\ device.info.gen = 7
    /\ image.aspects = VK_IMAGE_ASPECT_DEPTH_BIT + VK_IMAGE_ASPECT_STENCIL_BIT
    /\ image.aux_surface.isl.size > 0
    /\ image.aux_usage = "HIZ"
    /\ call.aspects = VK_IMAGE_ASPECT_STENCIL_BIT
    /\ call.layout = "DEPTH_STENCIL_ATTACHMENT_OPTIMAL"
    /\ call.result = "NONE"

\* The history holds an entry of the given kind.
Noted(what) == \E i \in 1..Len(placed) : placed[i].surf = what

\* The end of the last primary or shadow surface of the image.
LastPrimaryOrShadowEnd == MaxOf({ SurfaceEnd(f) : f \in SizedSurfaces \ { "aux_surface" } })

\* The create info asks for a single-sample colour image in a format that
\* cannot be rendered to.
UnrenderableSingleSampleColor ==
    /\ vk_format_aspects(create_info.format) = VK_IMAGE_ASPECT_COLOR_BIT
    /\ create_info.samples = 1
    /\ ~isl_format_supports_rendering(device.info, create_info.format)

\* A finished colour image whose format cannot be compressed: the layout
\* calculator refused the CCS or MCS surface, or the single-sample format
\* cannot be rendered to.
NonCompressibleColor ==
    /\ pc = "done"
    /\ image.aspects = VK_IMAGE_ASPECT_COLOR_BIT
    /\ Noted("ccs_refused") \/ Noted("mcs_refused") \/ UnrenderableSingleSampleColor

\* C7: a colour image whose format cannot be compressed is created without a
\* failed assertion, has aux_usage NONE and an empty aux_surface, and its size
\* is the end of its last primary or shadow surface: nothing was placed for an
\* auxiliary surface or a fast-clear block.
C7_NonCompressibleColorHasNoAux ==
    /\ NonCompressibleColor =>
          /\ image.aux_usage = "NONE"
          /\ image.aux_surface.isl.size = 0
          /\ image.size = LastPrimaryOrShadowEnd
          /\ ~Noted("aux_surface")
          /\ ~Noted("fast_clear_state")
    /\ UnrenderableSingleSampleColor => pc # "abort"

\* C7 witness: a CCS surface the calculator derived for an image in a format
\* that cannot be rendered to, abandoned after the fact; the image ends with
\* its colour surface.
C7_Witness ==
    /\ NonCompressibleColor
    /\ Noted("ccs_abandoned")
    /\ image.aux_surface.isl.alignment > 0
    /\ image.aux_surface.isl.size = 0
    /\ image.size = SurfaceEnd("color_surface")

\* A finished single-sample colour image, not MUTABLE_FORMAT, in a renderable
\* format for which the calculator derived a CCS surface, used as SAMPLED and
\* COLOR_ATTACHMENT only, with no debug override.
CompressibleColorCreated ==
    /\ pc = "done"
    /\ image.aspects = VK_IMAGE_ASPECT_COLOR_BIT
    /\ create_info.samples = 1
    /\ ~HasBit(create_info.flags, VK_IMAGE_CREATE_MUTABLE_FORMAT_BIT)
    /\ isl_format_supports_rendering(device.info, create_info.format)
    /\ ~Noted("ccs_refused")
    /\ create_info.usage = VK_IMAGE_USAGE_SAMPLED_BIT + VK_IMAGE_USAGE_COLOR_ATTACHMENT_BIT
    /\ INTEL_DEBUG = {}

\* The image has an auxiliary surface and aux_usage CCS_E, and a resolver call
\* with the colour aspect returned CCS_E whatever the layout.
AlwaysCompressed ==
    /\ image.aux_surface.isl.size > 0
    /\ image.aux_usage = "CCS_E"
    /\ (Called /\ call.aspects = VK_IMAGE_ASPECT_COLOR_BIT) => call.result = "CCS_E"

\* C8 as claimed: every such image gets an auxiliary surface and aux_usage
\* CCS_E, and the resolver returns CCS_E for the colour aspect in every layout.
C8_CompressibleColor_Original == CompressibleColorCreated => AlwaysCompressed

\* C8 amended: the same, for the images whose format also supports CCS_E
\* (isl_format_supports_ccs_e).
C8_CompressibleColor_Amended ==
    (CompressibleColorCreated /\ isl_format_supports_ccs_e(device.info, create_info.format))
       => AlwaysCompressed

\* C8 witness: such an image, accessed in TRANSFER_DST_OPTIMAL, a layout in
\* which a depth access would get NONE.
C8_Witness ==
    /\ CompressibleColorCreated
    /\ isl_format_supports_ccs_e(device.info, create_info.format)
    /\ Called
    /\ call.aspects = VK_IMAGE_ASPECT_COLOR_BIT
    /\ call.layout = "TRANSFER_DST_OPTIMAL"
    /\ call.result = "CCS_E"

\* make_surface has run for the depth aspect of an image that has one.
DepthAspectLaidOut ==
    /\ HasBit(image.aspects, VK_IMAGE_ASPECT_DEPTH_BIT)
    /\ pc = "done" \/ (pc = "loop" /\ b > VK_IMAGE_ASPECT_DEPTH_BIT)

\* The add_surface call for aux_surface directly follows the one for depth_surface.
AuxPlacedRightAfterDepth ==
    \E i \in 1..(Len(AddSurfaceCalls) - 1) :
       /\ AddSurfaceCalls[i].surf = "depth_surface"
       /\ AddSurfaceCalls[i + 1].surf = "aux_surface"

\* C9: a depth image with 1 level, 1 layer, 1 sample and
\* DEPTH_STENCIL_ATTACHMENT usage on gen >= 8 without NO_HIZ has a HiZ surface
\* derived from its depth surface, placed by add_surface right after it, and
\* aux_usage HIZ.
C9_DepthGetsHiz ==
    (/\ DepthAspectLaidOut
     /\ create_info.mipLevels = 1
     /\ create_info.arrayLayers = 1
     /\ create_info.samples = 1
     /\ HasBit(create_info.usage, VK_IMAGE_USAGE_DEPTH_STENCIL_ATTACHMENT_BIT)
     /\ device.info.gen >= 8
     /\ "NO_HIZ" \notin INTEL_DEBUG)
       => /\ image.aux_usage = "HIZ"
          /\ image.aux_surface.isl.size > 0
          /\ image.aux_surface.isl.format = "HIZ"
          /\ image.aux_surface.isl.levels = image.depth_surface.isl.levels
          /\ AuxPlacedRightAfterDepth
          /\ image.aux_surface.offset =
                align_u32(SurfaceEnd("depth_surface"), image.aux_surface.isl.alignment)

\* C9 witness: on gen 8, a finished depth-only image with a HiZ surface that
\* had to be padded up to its alignment.
C9_Witness ==
    /\ pc = "done"
    /\ image.aspects = VK_IMAGE_ASPECT_DEPTH_BIT
    /\ device.info.gen = 8
    /\ create_info.samples = 1
    /\ image.aux_usage = "HIZ"
    /\ AuxPlacedRightAfterDepth
    /\ image.aux_surface.offset > SurfaceEnd("depth_surface")

\* A finished image with the depth aspect has no auxiliary surface, aux_usage
\* NONE, and a depth access in DEPTH_STENCIL_ATTACHMENT_OPTIMAL returned NONE.
DepthWithoutHiz ==
    /\ image.aux_surface.isl.size = 0
    /\ image.aux_usage = "NONE"
    /\ ~Noted("aux_surface")
    /\ (Called /\ call.aspects = VK_IMAGE_ASPECT_DEPTH_BIT
               /\ call.layout = "DEPTH_STENCIL_ATTACHMENT_OPTIMAL") => call.result = "NONE"

FinishedDepthImage == pc = "done" /\ HasBit(image.aspects, VK_IMAGE_ASPECT_DEPTH_BIT)

\* The disqualifiers that do not depend on the generation.
DepthDisqualifiedOnAnyGen ==
    \/ ~HasBit(create_info.usage, VK_IMAGE_USAGE_DEPTH_STENCIL_ATTACHMENT_BIT)
    \/ create_info.mipLevels > 1
    \/ create_info.arrayLayers > 1
    \/ "NO_HIZ" \in INTEL_DEBUG

\* C10 as claimed: with any of the disqualifiers, more than one sample among
\* them, on every generation the depth aspect gets no auxiliary surface.
C10_DisqualifiedDepth_Original ==
    (FinishedDepthImage /\ (DepthDisqualifiedOnAnyGen \/ create_info.samples > 1))
       => DepthWithoutHiz

\* C10 amended: the same, where more than one sample disqualifies on a
\* generation below 9 only.
C10_DisqualifiedDepth_Amended ==
    (FinishedDepthImage
     /\ (DepthDisqualifiedOnAnyGen \/ (create_info.samples > 1 /\ device.info.gen < 9)))
       => DepthWithoutHiz

\* C10 witness: on gen 9, a two-layer depth attachment, accessed for depth in
\* DEPTH_STENCIL_ATTACHMENT_OPTIMAL.
C10_Witness ==
    /\ FinishedDepthImage
    /\ device.info.gen = 9
    /\ create_info.arrayLayers = 2
    /\ create_info.mipLevels = 1
    /\ create_info.samples = 1
    /\ HasBit(create_info.usage, VK_IMAGE_USAGE_DEPTH_STENCIL_ATTACHMENT_BIT)
    /\ INTEL_DEBUG = {}
    /\ Called
    /\ call.aspects = VK_IMAGE_ASPECT_DEPTH_BIT
    /\ call.layout = "DEPTH_STENCIL_ATTACHMENT_OPTIMAL"
    /\ call.result = "NONE"

\* A resolver call with a depth and/or stencil aspect mask that the image
\* has, on an image with a HiZ auxiliary surface.
DepthStencilCallOnHiz ==
    /\ Called
    /\ image.aux_surface.isl.size > 0
    /\ image.aux_usage = "HIZ"
    /\ call.aspects \in { VK_IMAGE_ASPECT_DEPTH_BIT, VK_IMAGE_ASPECT_STENCIL_BIT,
                          VK_IMAGE_ASPECT_DEPTH_BIT + VK_IMAGE_ASPECT_STENCIL_BIT }
    /\ call.aspects \in AcceptedAspects(image)

StencilOnlyBelowGen8 == device.info.gen < 8 /\ call.aspects = VK_IMAGE_ASPECT_STENCIL_BIT

\* C11: for a depth or stencil access of an image with a HiZ surface (the
\* stencil-only access below gen 8 excluded) the resolver returns HIZ in
\* DEPTH_STENCIL_ATTACHMENT_OPTIMAL and
\* DEPTH_ATTACHMENT_STENCIL_READ_ONLY_OPTIMAL whatever the sample count, and
\* NONE in UNDEFINED, PREINITIALIZED, GENERAL and the two transfer layouts.
C11_AttachmentHizTransferNone ==
    (DepthStencilCallOnHiz /\ ~StencilOnlyBelowGen8) =>
       /\ call.layout \in { "DEPTH_STENCIL_ATTACHMENT_OPTIMAL",
                            "DEPTH_ATTACHMENT_STENCIL_READ_ONLY_OPTIMAL_KHR" }
             => call.result = "HIZ"
       /\ call.layout \in { "UNDEFINED", "PREINITIALIZED", "GENERAL",
                            "TRANSFER_SRC_OPTIMAL", "TRANSFER_DST_OPTIMAL" }
             => call.result = "NONE"

\* C11 witness: a stencil access of a 4-sample image, which cannot be sampled
\* through HiZ, in DEPTH_ATTACHMENT_STENCIL_READ_ONLY_OPTIMAL returns HIZ.
C11_Witness ==
    /\ DepthStencilCallOnHiz
    /\ device.info.gen = 9
    /\ image.samples = 4
    /\ call.aspects = VK_IMAGE_ASPECT_STENCIL_BIT
    /\ ~anv_can_sample_with_hiz(device.info, call.aspects, image.samples)
    /\ call.layout = "DEPTH_ATTACHMENT_STENCIL_READ_ONLY_OPTIMAL_KHR"
    /\ call.result = "HIZ"

\* C12: for a depth or stencil access of an image with a HiZ surface in
\* DEPTH_STENCIL_READ_ONLY_OPTIMAL, SHADER_READ_ONLY_OPTIMAL or
\* DEPTH_READ_ONLY_STENCIL_ATTACHMENT_OPTIMAL the resolver returns HIZ when
\* anv_can_sample_with_hiz(devinfo, aspects, samples) holds and NONE when not.
C12_SamplingLayoutsFollowCapability ==
    (/\ DepthStencilCallOnHiz
     /\ call.layout \in { "DEPTH_STENCIL_READ_ONLY_OPTIMAL", "SHADER_READ_ONLY_OPTIMAL",
                          "DEPTH_READ_ONLY_STENCIL_ATTACHMENT_OPTIMAL_KHR" })
       => call.result = IF anv_can_sample_with_hiz(device.info, call.aspects, image.samples)
                        THEN "HIZ" ELSE "NONE"

\* C12 witness: on gen 9, a depth access of a 4-sample HiZ image in
\* SHADER_READ_ONLY_OPTIMAL returns NONE.
C12_Witness ==
    /\ DepthStencilCallOnHiz
    /\ device.info.gen = 9
    /\ image.samples = 4
    /\ call.aspects = VK_IMAGE_ASPECT_DEPTH_BIT
    /\ call.layout = "SHADER_READ_ONLY_OPTIMAL"
    /\ call.result = "NONE"

\* The number of add_surface calls made for aux_surface.
AuxPlacements == Cardinality({ i \in 1..Len(placed) : placed[i].surf = "aux_surface" })

\* What C14 says of the paths that fill aux_surface and of the finished image.
OneAuxPathAndUsageMatchesKind ==
    /\ pc = "abort" => ~Noted("aux_not_empty")
    /\ Building => AuxPlacements <= 1
    /\ pc = "done" =>
          /\ image.aux_usage # "NONE" => image.aux_surface.isl.size > 0
          /\ image.aux_usage = "HIZ" => HasBit(image.aspects, VK_IMAGE_ASPECT_DEPTH_BIT)
          /\ image.aux_usage = "CCS_E" =>
                image.aspects = VK_IMAGE_ASPECT_COLOR_BIT /\ image.samples = 1
          /\ image.aux_usage = "MCS" =>
                image.aspects = VK_IMAGE_ASPECT_COLOR_BIT /\ image.samples > 1
          /\ (Noted("ccs_refused") \/ Noted("mcs_refused")) =>
                image.aux_usage = "NONE" /\ image.aux_surface.isl.size = 0

\* C14 as claimed: at most one path fills aux_surface, the assertion
\* aux_surface.isl.size == 0 never fails, the kind of aux_usage matches the
\* kind of image, and a refusal of the layout calculator, on any of the three
\* paths, leaves aux_usage NONE and creation succeeds.
C14_OneAuxPath_Original ==
    /\ OneAuxPathAndUsageMatchesKind
    /\ pc = "abort" => ~Noted("hiz_refused")

\* C14 amended: the same, where only a refused CCS or MCS surface leaves
\* aux_usage NONE with creation succeeding; a refused HiZ surface fails
\* assert(ok).
C14_OneAuxPath_Amended == OneAuxPathAndUsageMatchesKind

\* C14 witness: a finished depth+stencil image: make_surface ran for both
\* aspects and the HiZ surface was placed once, by the depth one.
C14_Witness ==
    /\ pc = "done"
    /\ image.aspects = VK_IMAGE_ASPECT_DEPTH_BIT + VK_IMAGE_ASPECT_STENCIL_BIT
    /\ image.aux_usage = "HIZ"
    /\ AuxPlacements = 1
    /\ image.stencil_surface.offset >= SurfaceEnd("aux_surface")

\* The call returns before the layout switch: the image has no auxiliary
\* surface, or the access is stencil-only below gen 8, or the mask is COLOR.
ReturnsBeforeSwitch ==
    \/ image.aux_surface.isl.size = 0
    \/ StencilOnlyBelowGen8
    \/ call.aspects = VK_IMAGE_ASPECT_COLOR_BIT

\* C17 as claimed: a call with a value of VkImageLayout that is no declared
\* layout never returns a mode, for any image, aspect mask or generation.
C17_InvalidLayoutFatal_Original ==
    (Called /\ call.layout \in InvalidLayouts) => call.result \notin AuxUsages

\* C17 amended: such a call is fatal whenever it reaches the layout switch;
\* it returns a mode exactly when its aspect mask passes the validation and
\* it returns before the switch (no auxiliary surface, stencil-only below
\* gen 8, or the colour aspect).
C17_InvalidLayoutFatal_Amended ==
    (Called /\ call.layout \in InvalidLayouts) =>
       (call.result \in AuxUsages
          <=> (call.aspects \in AcceptedAspects(image) /\ ReturnsBeforeSwitch))

\* C17 witness: a depth access of a HiZ image on gen 9 with an integer that is
\* no enumerator of VkImageLayout ends in the unreachable() after the switch.
C17_Witness ==
    /\ DepthStencilCallOnHiz
    /\ device.info.gen = 9
    /\ call.aspects = VK_IMAGE_ASPECT_DEPTH_BIT
    /\ call.layout = "NOT_AN_ENUMERATOR"
    /\ call.result = "UNREACHABLE"

\* The mask is a non-empty subset of the image's aspects.
NonEmptySubsetOfImageAspects(mask) ==
    mask # 0 /\ BitAnd(mask, image.aspects) = mask

\* C18: the validation of anv_layout_to_aux_usage accepts exactly the
\* non-empty subsets of image.aspects; a call with any other mask fails the
\* assertion.
C18_AspectMaskValidation ==
    Called =>
       /\ call.aspects \in AcceptedAspects(image)
             <=> NonEmptySubsetOfImageAspects(call.aspects)
       /\ ~NonEmptySubsetOfImageAspects(call.aspects) => call.result = "ASSERT"

\* The history entry of the fast-clear block.
FastClearEntries == { i \in 1..Len(placed) : placed[i].surf = "fast_clear_state" }

----------------------------------------------------------------------------
(* Claims C13, C15, C16, C19: the finished image, its views and surface states *)

\* What make_surface laid out: the auxiliary usage, the size and alignment of
\* the image, and the offset and size of each of its surfaces.
Placement(img) ==
    [ aux_usage |-> img.aux_usage, size |-> img.size, alignment |-> img.alignment,
      surfaces |-> [ f \in SurfaceFields |->
                       [ offset |-> img[f].offset, size |-> img[f].isl.size ] ] ]

BindCalls == { "anv_BindImageMemory", "anv_BindImageMemory2KHR" }

\* C13: once anv_image_create has returned, no step of anv_BindImageMemory,
\* anv_BindImageMemory2KHR, anv_layout_to_aux_usage, anv_image_fill_surface_state,
\* anv_GetImageSubresourceLayout, anv_CreateImageView or anv_DestroyImageView
\* changes the auxiliary usage, the size, the alignment or the offset or size
\* of any surface of the image, and a binding step changes nothing of the
\* image but bo and offset.
C13_PlacementFrozenAfterCreate ==
    [][ pc = "done" =>
          /\ Placement(image') = Placement(image)
          /\ call'.op \in BindCalls =>
                [ image' EXCEPT !.bo = image.bo, !.offset = image.offset ] = image
      ]_vars

\* An image with an auxiliary surface, bound at a non-zero offset, with a
\* live view, after a surface state was filled for it.
C13_Witness ==
    /\ pc = "done"
    /\ image.bo = "bo" /\ image.offset > 0
    /\ image.aux_usage # "NONE" /\ image.aux_surface.offset > 0
    /\ iview # NoView
    /\ call.op = "anv_image_fill_surface_state" /\ call.result = "ok"

\* The surface states of the live view that anv_CreateImageView filled with
\* no auxiliary usage: the storage states always, a sampler state when
\* anv_layout_to_aux_usage gives NONE for its layout.
ViewStatesFilledWithoutAux ==
    IF iview = NoView THEN {}
    ELSE { f \in { "storage_surface_state", "writeonly_storage_surface_state" } :
             iview[f].descriptor # "none" }
         \cup { f \in { "general_sampler_surface_state" } :
                  /\ iview[f].descriptor # "none"
                  /\ anv_layout_to_aux_usage(device.info, image, iview.aspect_mask,
                                             "GENERAL") = "NONE" }
         \cup { f \in { "optimal_sampler_surface_state" } :
                  /\ iview[f].descriptor # "none"
                  /\ anv_layout_to_aux_usage(device.info, image, iview.aspect_mask,
                                             "SHADER_READ_ONLY_OPTIMAL") = "NONE" }

FilledWithoutAux ==
    /\ call.op = "anv_image_fill_surface_state"
    /\ call.result = "ok"
    /\ call.args.aux_usage = "NONE"

\* C15: a call of anv_image_fill_surface_state with aux_usage ISL_AUX_USAGE_NONE
\* that returns leaves state_inout->aux_address == 0, on every generation, on
\* the raw-buffer and on the surface-state path, whatever image.offset and
\* aux_surface.offset are; so do the fills of anv_CreateImageView.
C15_NoAuxUsageGivesZeroAuxAddress ==
    /\ FilledWithoutAux => call.state_inout.aux_address = 0
    /\ \A f \in ViewStatesFilledWithoutAux : iview[f].aux_address = 0

\* Below gen8, an image with an auxiliary surface past offset 0, bound at a
\* non-zero offset: a surface state filled on the surface-state path without
\* auxiliary usage, next to a live view whose states were filled the same way.
C15_Witness ==
    /\ FilledWithoutAux
    /\ call.args.view_usage = "TEXTURE"
    /\ call.state_inout.address > 0
    /\ device.info.gen < 8
    /\ image.offset > 0 /\ image.aux_surface.offset > 0
    /\ ViewStatesFilledWithoutAux # {}

\* The raw-buffer path: a readable storage state of a format the hardware has
\* no typed read for, of an image bound at a non-zero offset.
C15_WitnessRawBuffer ==
    /\ FilledWithoutAux
    /\ call.args.view_usage = "STORAGE" /\ call.args.flags = {}
    /\ ~isl_has_matching_typed_storage_image_format(device.info, image.vk_format)
    /\ image.offset > 0

ViewCreated == call.op = "anv_CreateImageView"

\* A surface state of the view was filled through the map of a failed
\* slot allocation.
DescriptorInUnallocatedSlot ==
    /\ iview # NoView
    /\ \E f \in SurfaceStateFields :
          iview[f].state.alloc_size = 0 /\ iview[f].descriptor # "none"

\* C16: when the allocation of the image object, of the view object or of a
\* surface-state slot fails, the call returns an out-of-memory result, writes
\* no handle and fills no descriptor into a slot it did not get.
C16_AllocationFailureReported ==
    /\ pc = "oom" => image = ZeroImage
    /\ (ViewCreated /\ call.host_alloc_failed) =>
          /\ call.result = "VK_ERROR_OUT_OF_HOST_MEMORY"
          /\ call.pView = "unwritten"
          /\ iview = NoView
    /\ (ViewCreated /\ call.failed_allocs > 0) =>
          /\ call.result = "VK_ERROR_OUT_OF_HOST_MEMORY"
          /\ call.pView = "unwritten"
          /\ ~DescriptorInUnallocatedSlot

\* The layers the view asks for, as anv_get_layerCount resolves them, reach
\* past the layers of the image, or past its depth at the base level.
LayerLimit(range) ==
    IF image.type = "3D" THEN anv_minify(image.extent.depth, range.baseMipLevel)
    ELSE image.array_size

LayersOutOfRange(range) ==
    /\ anv_get_layerCount(image, range) > 0
    /\ range.baseArrayLayer + anv_get_layerCount(image, range) > LayerLimit(range)

\* C19: anv_CreateImageView ends in a failed assertion whenever baseMipLevel
\* is not below image.levels or the layer range [baseArrayLayer,
\* baseArrayLayer + layerCount) is not inside [0, array_size) of a 1D/2D
\* image, or [0, depth at baseMipLevel) of a 3D image.
C19_OutOfRangeViewIsFatal ==
    (/\ ViewCreated
     /\ ~call.host_alloc_failed
     /\ call.failed_allocs = 0
     /\ \/ call.args.subresourceRange.baseMipLevel >= image.levels
        \/ LayersOutOfRange(call.args.subresourceRange))
    => call.result = "ASSERT"

----------------------------------------------------------------------------
(* Claims C21..C30 *)

\* The position of the add_surface call for surface f in the history, 0 when
\* there is none.
CallIndex(f) ==
    IF \E i \in 1..Len(AddSurfaceCalls) : AddSurfaceCalls[i].surf = f
    THEN CHOOSE i \in 1..Len(AddSurfaceCalls) : AddSurfaceCalls[i].surf = f
    ELSE 0

Placed(f) == CallIndex(f) > 0

\* The primary surface the auxiliary surface of the image was derived from.
GovernedPrimary ==
    IF image.aux_surface.isl.format = "HIZ" THEN "depth_surface" ELSE "color_surface"

\* C21 as stated: the add_surface calls of one creation are all the primary
\* surfaces, then the shadow surface, then the auxiliary surface; so every
\* primary surface lies below the shadow surface, which lies below the
\* auxiliary surface, and the auxiliary surface starts at the end of its
\* governed primary surface rounded up to its alignment.
C21_FixedPlacementOrder_Original ==
    pc = "done" =>
       /\ \A p \in PrimarySurfaces :
             Placed(p) =>
                /\ Placed("shadow_surface") =>
                      /\ CallIndex(p) < CallIndex("shadow_surface")
                      /\ image[p].offset < image.shadow_surface.offset
                /\ Placed("aux_surface") =>
                      /\ CallIndex(p) < CallIndex("aux_surface")
                      /\ image[p].offset < image.aux_surface.offset
       /\ (Placed("shadow_surface") /\ Placed("aux_surface")) =>
             /\ CallIndex("shadow_surface") < CallIndex("aux_surface")
             /\ image.shadow_surface.offset < image.aux_surface.offset
       /\ Placed("aux_surface") =>
             image.aux_surface.offset =
                align_u32(SurfaceEnd(GovernedPrimary), image.aux_surface.isl.alignment)

\* C21, amended: the order is fixed within each make_surface call, and the
\* calls run in aspect order. The depth surface is placed before the stencil
\* surface; the shadow surface directly after the colour surface; the
\* auxiliary surface directly after its governed primary surface, or after
\* the shadow surface when there is one, at the end of that surface rounded
\* up to its alignment; the fast-clear block directly after the auxiliary
\* surface. A stencil surface follows the HiZ surface of its image.
C21_FixedPlacementOrder_Amended ==
    pc = "done" =>
       /\ (Placed("depth_surface") /\ Placed("stencil_surface")) =>
             /\ CallIndex("depth_surface") < CallIndex("stencil_surface")
             /\ image.depth_surface.offset < image.stencil_surface.offset
       /\ Placed("shadow_surface") =>
             /\ CallIndex("shadow_surface") = CallIndex("color_surface") + 1
             /\ Placed("color_surface")
             /\ image.color_surface.offset < image.shadow_surface.offset
       /\ Placed("aux_surface") =>
             LET before == AddSurfaceCalls[CallIndex("aux_surface") - 1]
             IN /\ CallIndex("aux_surface") > 1
                /\ before.surf = IF Placed("shadow_surface") THEN "shadow_surface"
                                 ELSE GovernedPrimary
                /\ image[GovernedPrimary].offset < image.aux_surface.offset
                /\ image.aux_surface.offset =
                      align_u32(before.offset + before.size,
                                image.aux_surface.isl.alignment)
                /\ (Placed("stencil_surface") /\ GovernedPrimary = "depth_surface") =>
                      image.aux_surface.offset < image.stencil_surface.offset
       /\ \A i \in 1..Len(placed) :
             placed[i].surf = "fast_clear_state" =>
                i > 1 /\ placed[i - 1].surf = "aux_surface"

\* A finished depth+stencil image whose HiZ surface lies between the depth
\* and the stencil surface, padded up to its alignment.
C21_Witness ==
    /\ pc = "done"
    /\ image.aux_usage = "HIZ"
    /\ Placed("stencil_surface")
    /\ image.aux_surface.offset > SurfaceEnd("depth_surface")
    /\ image.stencil_surface.offset >= SurfaceEnd("aux_surface")

ShadowAskedFor ==
    /\ create_info.tiling = "OPTIMAL"
    /\ device.info.gen <= 8
    /\ HasBit(create_info.flags, VK_IMAGE_CREATE_BLOCK_TEXEL_VIEW_COMPATIBLE_BIT_KHR)

\* C22: a finished image has a shadow surface exactly when its tiling is
\* OPTIMAL, the device is gen <= 8 and BLOCK_TEXEL_VIEW_COMPATIBLE was asked
\* for; the shadow surface is then the linear one, the primary surface is
\* tiled, and the shadow surface was asked of the layout calculator with the
\* format, levels, samples and usage of the primary surface.
C22_ShadowSurface ==
    pc = "done" =>
       /\ Placed("shadow_surface") <=> ShadowAskedFor
       /\ Placed("shadow_surface") =>
             /\ image.shadow_surface.isl.tiling = "LINEAR"
             /\ image.color_surface.isl.tiling # "LINEAR"
             /\ image.shadow_surface.isl.format = image.color_surface.isl.format
             /\ image.shadow_surface.isl.levels = image.color_surface.isl.levels
             /\ image.shadow_surface.isl.samples = image.color_surface.isl.samples
             /\ image.shadow_surface.isl.usage = image.color_surface.isl.usage

\* The part of C22 that does not depend on which surface is the linear one:
\* the usage the shadow surface is asked for.
C22_ShadowUsageOnly ==
    (pc = "done" /\ Placed("shadow_surface")) =>
       image.shadow_surface.isl.usage = image.color_surface.isl.usage

\* The sampler surface states of the view just created, with the flags
\* anv_CreateImageView filled them with.
SamplerStateFlags ==
    [ optimal_sampler_surface_state |-> { "TEXTURE_OPTIMAL" },
      general_sampler_surface_state |-> {} ]

FilledSamplerStates ==
    IF ViewCreated /\ iview # NoView
    THEN { f \in DOMAIN SamplerStateFlags : iview[f].descriptor # "none" }
    ELSE {}

\* The surface a filled state of the view just created describes: the
\* shadow surface when its address lies at or above the shadow surface.
DescribesShadow(f) ==
    /\ image.shadow_surface.isl.size > 0
    /\ iview[f].address - image.offset >= image.shadow_surface.offset

ViewPrimary == image[anv_image_get_surface_for_aspect_mask(image, iview.aspect_mask)]

DescribesPrimary(f) ==
    /\ iview[f].address - image.offset >= ViewPrimary.offset
    /\ iview[f].address - image.offset < ViewPrimary.offset + ViewPrimary.isl.size

\* C23 as stated: a surface state describes the shadow surface exactly when
\* the view format is not block-compressed and the primary surface is
\* block-compressed and tiled; every other state describes the primary.
C23_ShadowForUncompressedView_Original ==
    \A f \in FilledSamplerStates :
       /\ DescribesShadow(f) <=>
             /\ ~isl_format_is_compressed(iview.isl.format)
             /\ isl_format_is_compressed(ViewPrimary.isl.format)
             /\ ViewPrimary.isl.tiling # "LINEAR"
       /\ ~DescribesShadow(f) => DescribesPrimary(f)

\* C23, amended: a surface state describes the shadow surface exactly when
\* the image has one, the view format is block-compressed and the state is
\* filled with ANV_IMAGE_VIEW_STATE_TEXTURE_OPTIMAL; every other state, those
\* of uncompressed views among them, describes the (linear) primary surface.
C23_ShadowForUncompressedView_Amended ==
    \A f \in FilledSamplerStates :
       /\ DescribesShadow(f) <=>
             /\ image.shadow_surface.isl.size > 0
             /\ isl_format_is_compressed(iview.isl.format)
             /\ "TEXTURE_OPTIMAL" \in SamplerStateFlags[f]
       /\ ~DescribesShadow(f) => DescribesPrimary(f)

\* A compressed view of an image with a shadow surface: its optimal sampler
\* state describes the shadow surface, its general one the primary.
C23_Witness ==
    /\ FilledSamplerStates = DOMAIN SamplerStateFlags
    /\ isl_format_is_compressed(iview.isl.format)
    /\ DescribesShadow("optimal_sampler_surface_state")
    /\ DescribesPrimary("general_sampler_surface_state")
    /\ ~DescribesShadow("general_sampler_surface_state")

\* An uncompressed view of an image with a shadow surface, described from the
\* primary surface.
C23_WitnessUncompressed ==
    /\ FilledSamplerStates = DOMAIN SamplerStateFlags
    /\ image.shadow_surface.isl.size > 0
    /\ ~isl_format_is_compressed(iview.isl.format)
    /\ \A f \in FilledSamplerStates : DescribesPrimary(f) /\ ~DescribesShadow(f)

\* A finished single-sampled colour image with a CCS auxiliary surface.
CcsGranted == ColorAuxGranted /\ create_info.samples = 1

ListedViewFormats ==
    { create_info.view_formats.pViewFormats[i] :
        i \in 1..Len(create_info.view_formats.pViewFormats) }

AuxAndFastClearCounted ==
    /\ Placed("aux_surface")
    /\ FastClearBlockSize > 0
    /\ image.size = SurfaceEnd("aux_surface") + FastClearBlockSize

\* C24 as stated: with CCS granted, aux_usage is CCS_E exactly when the image
\* has no STORAGE usage and either no MUTABLE_FORMAT flag or only
\* CCS_E-compatible formats in its format list; otherwise it is NONE, and in
\* both cases the auxiliary surface and the fast-clear block are in the size.
C24_CcsEDefault_Original ==
    CcsGranted =>
       /\ image.aux_usage = "CCS_E" <=>
             /\ ~HasBit(create_info.usage, VK_IMAGE_USAGE_STORAGE_BIT)
             /\ \/ ~HasBit(create_info.flags, VK_IMAGE_CREATE_MUTABLE_FORMAT_BIT)
                \/ \A f \in ListedViewFormats :
                      isl_formats_are_ccs_e_compatible(device.info, create_info.format, f)
       /\ image.aux_usage \in { "CCS_E", "NONE" }
       /\ AuxAndFastClearCounted

\* C24, amended: aux_usage is CCS_E exactly when the image has no STORAGE
\* usage, its own format supports CCS_E, and either it has no MUTABLE_FORMAT
\* flag or it has a format list that is not empty and holds only
\* CCS_E-compatible formats; otherwise it is NONE, and in both cases the
\* auxiliary surface and the fast-clear block are in the size.
C24_CcsEDefault_Amended ==
    CcsGranted =>
       /\ image.aux_usage = "CCS_E" <=>
             /\ ~HasBit(create_info.usage, VK_IMAGE_USAGE_STORAGE_BIT)
             /\ isl_format_supports_ccs_e(device.info, create_info.format)
             /\ \/ ~HasBit(create_info.flags, VK_IMAGE_CREATE_MUTABLE_FORMAT_BIT)
                \/ /\ create_info.view_formats.present
                   /\ ListedViewFormats # {}
                   /\ \A f \in ListedViewFormats :
                         isl_formats_are_ccs_e_compatible(device.info, create_info.format, f)
       /\ image.aux_usage \in { "CCS_E", "NONE" }
       /\ AuxAndFastClearCounted

\* A mutable-format image whose listed formats are all compatible and that
\* got CCS_E.
C24_Witness ==
    /\ CcsGranted
    /\ HasBit(create_info.flags, VK_IMAGE_CREATE_MUTABLE_FORMAT_BIT)
    /\ ListedViewFormats # {}
    /\ image.aux_usage = "CCS_E"

\* Images with CCS whose aux_usage stayed NONE: one with STORAGE usage, one
\* with an incompatible listed format, one whose own format has no CCS_E.
C24_WitnessStorage ==
    /\ CcsGranted /\ image.aux_usage = "NONE"
    /\ HasBit(create_info.usage, VK_IMAGE_USAGE_STORAGE_BIT)
    /\ all_formats_ccs_e_compatible(device.info, create_info)

C24_WitnessIncompatibleView ==
    /\ CcsGranted /\ image.aux_usage = "NONE"
    /\ isl_format_supports_ccs_e(device.info, create_info.format)
    /\ \E f \in ListedViewFormats :
          ~isl_formats_are_ccs_e_compatible(device.info, create_info.format, f)

C24_WitnessBaseFormat ==
    /\ CcsGranted /\ image.aux_usage = "NONE"
    /\ ~HasBit(create_info.flags, VK_IMAGE_CREATE_MUTABLE_FORMAT_BIT)
    /\ ~HasBit(create_info.usage, VK_IMAGE_USAGE_STORAGE_BIT)
    /\ ~isl_format_supports_ccs_e(device.info, create_info.format)

\* A resolver call with a depth and/or stencil aspect mask that the image has.
DepthStencilCall ==
    /\ Called
    /\ call.aspects \in { VK_IMAGE_ASPECT_DEPTH_BIT, VK_IMAGE_ASPECT_STENCIL_BIT,
                          VK_IMAGE_ASPECT_DEPTH_BIT + VK_IMAGE_ASPECT_STENCIL_BIT }
    /\ call.aspects \in AcceptedAspects(image)

\* C25 as stated: for a depth or stencil access of an image with an auxiliary
\* surface, the resolver returns NONE in PRESENT_SRC and no assertion fails.
C25_PresentSrcNone_Original ==
    (DepthStencilCall /\ image.aux_surface.isl.size > 0 /\ call.layout = "PRESENT_SRC_KHR")
       => call.result = "NONE"

\* C25, amended: for a depth or stencil access of an image with an auxiliary
\* surface in PRESENT_SRC, the resolver returns NONE for the stencil-only
\* access below gen 8 and fails assert(color_aspect) for every other one.
C25_PresentSrcNone_Amended ==
    (DepthStencilCall /\ image.aux_surface.isl.size > 0 /\ call.layout = "PRESENT_SRC_KHR")
       => call.result = IF StencilOnlyBelowGen8 THEN "NONE" ELSE "ASSERT"

\* A depth access of an image with HiZ in PRESENT_SRC: the assertion fails.
C25_Witness ==
    /\ DepthStencilCallOnHiz
    /\ call.aspects = VK_IMAGE_ASPECT_DEPTH_BIT
    /\ call.layout = "PRESENT_SRC_KHR"
    /\ call.result = "ASSERT"

\* The stencil-only access below gen 8 in PRESENT_SRC: NONE.
C25_WitnessStencilBelowGen8 ==
    /\ DepthStencilCallOnHiz
    /\ StencilOnlyBelowGen8
    /\ call.layout = "PRESENT_SRC_KHR"
    /\ call.result = "NONE"

\* C26 as stated: a depth or stencil access in COLOR_ATTACHMENT_OPTIMAL never
\* returns a mode: an assertion or unreachable() ends it, with or without an
\* auxiliary surface, on every generation.
C26_ColorAttachmentFatal_Original ==
    (DepthStencilCall /\ call.layout = "COLOR_ATTACHMENT_OPTIMAL")
       => call.result \in { "ASSERT", "UNREACHABLE" }

\* C26, amended: a depth or stencil access in COLOR_ATTACHMENT_OPTIMAL fails
\* assert(color_aspect) when the image has an auxiliary surface and the access
\* is not the stencil-only one below gen 8; without an auxiliary surface, and
\* for the stencil-only access below gen 8, the resolver returns NONE.
C26_ColorAttachmentFatal_Amended ==
    (DepthStencilCall /\ call.layout = "COLOR_ATTACHMENT_OPTIMAL")
       => call.result = IF image.aux_surface.isl.size = 0 \/ StencilOnlyBelowGen8
                        THEN "NONE" ELSE "ASSERT"

\* A depth access of an image with HiZ in COLOR_ATTACHMENT_OPTIMAL: fatal.
C26_Witness ==
    /\ DepthStencilCallOnHiz
    /\ call.aspects = VK_IMAGE_ASPECT_DEPTH_BIT
    /\ call.layout = "COLOR_ATTACHMENT_OPTIMAL"
    /\ call.result = "ASSERT"

\* A depth access of an image without auxiliary surface in
\* COLOR_ATTACHMENT_OPTIMAL: NONE.
C26_WitnessNoAux ==
    /\ DepthStencilCall
    /\ image.aux_surface.isl.size = 0
    /\ call.aspects = VK_IMAGE_ASPECT_DEPTH_BIT
    /\ call.layout = "COLOR_ATTACHMENT_OPTIMAL"
    /\ call.result = "NONE"

\* A call of anv_image_fill_surface_state for a storage access of an aspect
\* of the image in a format without matching typed storage format.
UntypedStorageFill ==
    /\ call.op = "anv_image_fill_surface_state"
    /\ call.args.view_usage = "STORAGE"
    /\ anv_image_get_surface_for_aspect_mask(image, call.args.aspect) # "fatal"
    /\ ~isl_has_matching_typed_storage_image_format(device.info, image.vk_format)

\* The storage surface states of the view just created.
FilledStorageStates ==
    IF ViewCreated /\ iview # NoView
    THEN { f \in { "storage_surface_state", "writeonly_storage_surface_state" } :
             iview[f].descriptor # "none" }
    ELSE {}

\* C27 as stated: a storage fill in a format without matching typed format
\* returns with the raw encoding and aux_address 0, whatever aux_usage and
\* the write-only flag are; and the storage states of anv_CreateImageView are
\* built without auxiliary usage.
C27_RawStorageNoAux_Original ==
    /\ UntypedStorageFill =>
          /\ call.result = "ok"
          /\ call.state_inout.format = "RAW"
          /\ call.state_inout.aux_address = 0
    /\ \A f \in FilledStorageStates : iview[f].aux_address = 0

\* C27, amended: a storage fill in a format without matching typed format
\* writes the raw encoding with aux_address 0 when the write-only flag is not
\* set and aux_usage is NONE; without the flag and with another aux_usage it
\* fails assert(aux_usage == ISL_AUX_USAGE_NONE); with the flag it writes a
\* surface state in the format of the view, whose aux_address is 0 only when
\* aux_usage is NONE. The storage states of anv_CreateImageView are built
\* without auxiliary usage.
C27_RawStorageNoAux_Amended ==
    /\ (UntypedStorageFill /\ "STORAGE_WRITE_ONLY" \notin call.args.flags) =>
          IF call.args.aux_usage = "NONE"
          THEN /\ call.result = "ok"
               /\ call.state_inout.format = "RAW"
               /\ call.state_inout.aux_address = 0
          ELSE call.result = "ASSERT"
    /\ (UntypedStorageFill /\ "STORAGE_WRITE_ONLY" \in call.args.flags
          /\ call.result = "ok") =>
          /\ call.state_inout.format = image.vk_format
          /\ call.args.aux_usage = "NONE" => call.state_inout.aux_address = 0
          /\ (call.args.aux_usage # "NONE" /\ device.info.gen >= 8) =>
                call.state_inout.aux_address = image.offset + image.aux_surface.offset
    /\ \A f \in FilledStorageStates : iview[f].aux_address = 0

\* The raw encoding written for a readable storage access without auxiliary
\* usage.
C27_Witness ==
    /\ UntypedStorageFill
    /\ call.args.flags = {}
    /\ call.args.aux_usage = "NONE"
    /\ call.result = "ok"
    /\ call.state_inout.format = "RAW"

\* The same access with an auxiliary usage: the assertion fails.
C27_WitnessAuxAsserts ==
    /\ UntypedStorageFill
    /\ call.args.flags = {}
    /\ call.args.aux_usage # "NONE"
    /\ call.result = "ASSERT"

\* The write-only access with an auxiliary usage: a surface state with an
\* auxiliary address.
C27_WitnessWriteOnly ==
    /\ UntypedStorageFill
    /\ call.args.flags = { "STORAGE_WRITE_ONLY" }
    /\ call.args.aux_usage # "NONE"
    /\ call.result = "ok"
    /\ call.state_inout.format # "RAW"
    /\ call.state_inout.aux_address # 0

\* A view with storage states of an image that has an auxiliary surface.
C27_WitnessView ==
    /\ FilledStorageStates # {}
    /\ image.aux_surface.isl.size > 0
    /\ image.aux_surface.offset > 0

\* C28: whenever anv_layout_to_aux_usage returns for an image made by
\* anv_image_create and an aspect mask that is a non-empty subset of the
\* aspects of the image, it returns ISL_AUX_USAGE_NONE or image.aux_usage,
\* never an auxiliary usage of another kind.
C28_ResolverWithinCreationUsage ==
    (Called /\ call.aspects \in AcceptedAspects(image) /\ call.result \in AuxUsages)
       => call.result \in { "NONE", image.aux_usage }

\* The resolver returns HIZ for an image created with HiZ.
C28_Witness ==
    /\ Called
    /\ call.aspects \in AcceptedAspects(image)
    /\ call.result = "HIZ"
    /\ image.aux_usage = "HIZ"

\* The resolver returns NONE for an image created with HiZ, and CCS_E for a
\* colour image created with it.
C28_WitnessNone ==
    /\ Called
    /\ image.aux_usage = "HIZ"
    /\ image.aux_surface.isl.size > 0
    /\ call.result = "NONE"

C28_WitnessColor ==
    /\ Called
    /\ call.result = "CCS_E"
    /\ image.aux_usage = "CCS_E"

SamplerStates == { "optimal_sampler_surface_state", "general_sampler_surface_state" }

StorageStates == { "storage_surface_state", "writeonly_storage_surface_state" }

\* A view was just built and handed out.
ViewBuilt == ViewCreated /\ call.result = "VK_SUCCESS" /\ iview # NoView

\* The usage of the view just built.
BuiltViewUsage ==
    IF call.args.usage_info.present THEN call.args.usage_info.usage ELSE image.usage

\* The surface states the usage of the view just built asks slots for.
StatesAskedFor ==
    (IF \/ HasBit(BuiltViewUsage, VK_IMAGE_USAGE_SAMPLED_BIT)
        \/ /\ HasBit(BuiltViewUsage, VK_IMAGE_USAGE_INPUT_ATTACHMENT_BIT)
           /\ ~HasBit(iview.aspect_mask, VK_IMAGE_ASPECT_COLOR_BIT)
     THEN SamplerStates ELSE {})
    \cup (IF HasBit(BuiltViewUsage, VK_IMAGE_USAGE_STORAGE_BIT) THEN StorageStates ELSE {})

\* The slots of the pool held by the image code are those of the live view.
PoolHoldsSlotsOfLiveView ==
    device.surface_state_pool.allocated =
       IF iview = NoView THEN 0 ELSE Cardinality(AllocatedStates(iview))

\* A step that destroys the live view frees the slots the view holds, each
\* once, and no other.
DestroyFreesSlotsOfView ==
    [][ (pc = "done" /\ iview # NoView /\ iview' = NoView) =>
          /\ call'.op = "anv_DestroyImageView"
          /\ call'.freed = Cardinality(AllocatedStates(iview))
          /\ device'.surface_state_pool.allocated =
                device.surface_state_pool.allocated - Cardinality(AllocatedStates(iview))
      ]_vars

C29_WitnessInputAttachment ==
    /\ ViewBuilt
    /\ BuiltViewUsage = VK_IMAGE_USAGE_INPUT_ATTACHMENT_BIT
    /\ AllocatedStates(iview) = SamplerStates

C29_WitnessStorageOnly ==
    /\ ViewBuilt
    /\ AllocatedStates(iview) = StorageStates

C29_WitnessColorInputAttachment ==
    /\ ViewBuilt
    /\ BuiltViewUsage = VK_IMAGE_USAGE_INPUT_ATTACHMENT_BIT
    /\ HasBit(iview.aspect_mask, VK_IMAGE_ASPECT_COLOR_BIT)
    /\ call.failed_allocs = 0
    /\ AllocatedStates(iview) = {}

C29_WitnessPoolExhausted ==
    /\ ViewBuilt
    /\ StatesAskedFor = SamplerStates \cup StorageStates
    /\ AllocatedStates(iview) = SamplerStates

\* The state of the screen after panfrost_perfcnt_init found the GPU in its
\* table and returned.
PerfcntReady == pscreen.state = "ready"

ScreenCounters == CountersAt(pscreen.perfcnt_info.counters)

RECURSIVE SumOverBlocks(_)
SumOverBlocks(blocks) ==
    IF blocks = {} THEN 0
    ELSE LET i == CHOOSE x \in blocks : TRUE
         IN Cardinality(pscreen.perfcnt_info.instances[i]) * Len(ScreenCounters[i])
            + SumOverBlocks(blocks \ { i })

\* The (block, instance, counter) triples of the instances that are present.
PresentTriples ==
    UNION { UNION { { << i, j, k >> : k \in 0..(Len(ScreenCounters[i]) - 1) } :
                      j \in pscreen.perfcnt_info.instances[i] \cap 0..63 } :
              i \in Blocks }

QueryTriple(q) == << q.block, q.instance, q.counter >>

TripleBefore(s, t) ==
    \/ s[1] < t[1]
    \/ s[1] = t[1] /\ s[2] < t[2]
    \/ s[1] = t[1] /\ s[2] = t[2] /\ s[3] < t[3]

QueryInfoCalled == PerfcntReady /\ call.op = "panfrost_get_query_info"

\* C30: after panfrost_perfcnt_init on a supported GPU, nqueries is the sum
\* over the blocks of the number of instance bits set times the number of
\* counters of the block; the query table holds every (block, instance,
\* counter) triple of a present instance exactly once, in the order of block,
\* instance, counter; and panfrost_get_query_info returns nqueries for a NULL
\* info, 0 with info untouched for an index >= nqueries, and 1 with the entry
\* at the index otherwise.
C30_QueryTable ==
    /\ PerfcntReady =>
          LET info == pscreen.perfcnt_info
          IN /\ info.nqueries = SumOverBlocks(Blocks)
             /\ Len(info.queries) = info.nqueries
             /\ { QueryTriple(info.queries[p]) : p \in 1..info.nqueries } = PresentTriples
             /\ Cardinality(PresentTriples) = info.nqueries
             /\ \A p \in 1..(info.nqueries - 1) :
                   TripleBefore(QueryTriple(info.queries[p]),
                                QueryTriple(info.queries[p + 1]))
    /\ QueryInfoCalled =>
          LET info == pscreen.perfcnt_info
          IN CASE call.info_in = NullQueryInfo ->
                    call.out.return = info.nqueries
               [] call.info_in # NullQueryInfo /\ call.index >= info.nqueries ->
                    call.out.return = 0 /\ call.out.info = call.info_in
               [] OTHER ->
                    /\ call.out.return = 1
                    /\ call.out.info.name = info.queries[call.index + 1].name
                    /\ call.out.info.name =
                          << ScreenCounters[info.queries[call.index + 1].block]
                                           [info.queries[call.index + 1].counter + 1].name,
                             block_names[info.queries[call.index + 1].block + 1],
                             info.queries[call.index + 1].instance >>
                    /\ call.out.info.query_type
                          = << "PIPE_QUERY_DRIVER_SPECIFIC", call.index >>

\* A screen with two instances of one block, asked for the last query of its
\* table.
C30_Witness ==
    /\ QueryInfoCalled
    /\ \E i \in Blocks : Cardinality(pscreen.perfcnt_info.instances[i]) = 2
    /\ call.info_in # NullQueryInfo
    /\ call.index = pscreen.perfcnt_info.nqueries - 1
    /\ call.out.return = 1

\* The same calls with a NULL info, with an index beyond the table, on a
\* screen with instances of two blocks, and a screen without any query.
C30_WitnessNullInfo ==
    /\ QueryInfoCalled
    /\ call.info_in = NullQueryInfo
    /\ call.out.return > 0

C30_WitnessBeyond ==
    /\ QueryInfoCalled
    /\ call.info_in # NullQueryInfo
    /\ call.index = pscreen.perfcnt_info.nqueries
    /\ pscreen.perfcnt_info.nqueries > 0
    /\ call.out.return = 0

C30_WitnessTwoBlocks ==
    /\ QueryInfoCalled
    /\ Cardinality({ i \in Blocks : pscreen.perfcnt_info.instances[i] # {} }) = 2
    /\ call.out.return = 1

C30_WitnessNoQueries ==
    /\ PerfcntReady
    /\ pscreen.perfcnt_info.nqueries = 0
    /\ pscreen.perfcnt_info.queries = << >>

====
